---- MODULE Spec2Model ----
(***************************************************************************)
(* Model of the portcullis/config registry: typed Settings (Set, String,  *)
(* Equals, Notify), the hierarchical Set (Get, Set, Subset, Setting,      *)
(* Range, Notify, notifyChanged) and NotifyHandle.Close.                  *)
(*                                                                         *)
(* Go strings are sequences of one-character strings so that ToLower,     *)
(* HasPrefix, concatenation and the strconv parsers are computed as the   *)
(* code computes them.                                                    *)
(***************************************************************************)
EXTENDS Integers, Sequences, FiniteSets, TLC

(***************************************************************************)
(* Bounds of the model.                                                   *)
(***************************************************************************)
MaxSets == 3
MaxSettings == 2
MaxHandles == 2
NumThreads == 2
\* the Settings and the subscriptions of the tree that Spec builds
TreeSettings == 1
TreeHandles == 1

Threads == 1..NumThreads

(***************************************************************************)
(* Strings.                                                               *)
(***************************************************************************)
LowerChar(c) ==
    CASE c = "A" -> "a" [] c = "N" -> "n"
      [] c = "B" -> "b"
      [] c = "C" -> "c"
      [] c = "T" -> "t"
      [] c = "X" -> "x"
      [] OTHER -> c

ToLower(s) == [i \in 1..Len(s) |-> LowerChar(s[i])]

HasPrefix(s, prefix) ==
    /\ Len(s) >= Len(prefix)
    /\ SubSeq(s, 1, Len(prefix)) = prefix

\* fmt.Sprintf("%s.%s", a, b)
DotJoin(a, b) == a \o <<".">> \o b

Tail2(s) == SubSeq(s, 3, Len(s))

(***************************************************************************)
(* strconv: ParseBool, ParseUint and ParseInt with base 0.                *)
(***************************************************************************)
ErrNil == "nil"
ErrSyntax == "syntax"
ErrRange == "range"
\* the error that a value's UnmarshalSetting returns, and the one of the type
\* switch for a value that is no builtin and has no UnmarshalSetting
ErrUser == "user"
ErrUnsupported == "unsupported"

Pow2(n) == IF n = 8 THEN 256 ELSE IF n = 7 THEN 128 ELSE IF n = 16 THEN 65536 ELSE 32768

ParseBool(str) ==
    IF str \in { <<"1">>, <<"t">>, <<"T">>, <<"T","R","U","E">>,
                 <<"t","r","u","e">>, <<"T","r","u","e">> }
    THEN [err |-> ErrNil, b |-> TRUE]
    ELSE IF str \in { <<"0">>, <<"f">>, <<"F">>, <<"F","A","L","S","E">>,
                      <<"f","a","l","s","e">>, <<"F","a","l","s","e">> }
    THEN [err |-> ErrNil, b |-> FALSE]
    ELSE [err |-> ErrSyntax, b |-> FALSE]

\* the value of one digit; 36 stands for "not a digit"
DigitVal(c) ==
    CASE c = "0" -> 0 [] c = "1" -> 1 [] c = "2" -> 2 [] c = "3" -> 3
      [] c = "4" -> 4 [] c = "5" -> 5 [] c = "6" -> 6 [] c = "7" -> 7
      [] c = "8" -> 8 [] c = "9" -> 9
      [] LowerChar(c) = "a" -> 10 [] LowerChar(c) = "b" -> 11
      [] LowerChar(c) = "c" -> 12 [] c = "d" -> 13
      [] c = "e" -> 14 [] c = "f" -> 15
      [] OTHER -> 36

\* the digit loop of ParseUint: -1 is a syntax error, otherwise the number
RECURSIVE Digits(_, _, _)
Digits(str, base, acc) ==
    IF str = <<>> THEN acc
    ELSE IF DigitVal(Head(str)) >= base THEN -1
    ELSE Digits(Tail(str), base, acc * base + DigitVal(Head(str)))

ParseUint(str, bitSize) ==
    IF str = <<>> THEN [err |-> ErrSyntax, n |-> 0]
    ELSE LET prefixed(ch) == Len(str) >= 3 /\ LowerChar(str[2]) = ch
             base == IF str[1] # "0" THEN 10
                     ELSE IF prefixed("b") THEN 2
                     ELSE IF prefixed("o") THEN 8
                     ELSE IF prefixed("x") THEN 16
                     ELSE 8
             rest == IF str[1] # "0" THEN str
                     ELSE IF prefixed("b") \/ prefixed("o") \/ prefixed("x") THEN Tail2(str)
                     ELSE Tail(str)
             n == Digits(rest, base, 0)
         IN  IF n = -1 THEN [err |-> ErrSyntax, n |-> 0]
             ELSE IF n > Pow2(bitSize) - 1 THEN [err |-> ErrRange, n |-> Pow2(bitSize) - 1]
             ELSE [err |-> ErrNil, n |-> n]

ParseInt(str, bitSize) ==
    IF str = <<>> THEN [err |-> ErrSyntax, n |-> 0]
    ELSE LET neg == str[1] = "-"
             body == IF str[1] \in {"+", "-"} THEN Tail(str) ELSE str
             un == ParseUint(body, bitSize)
             cutoff == Pow2(bitSize - 1)
         IN  IF un.err = ErrSyntax THEN [err |-> ErrSyntax, n |-> 0]
             ELSE IF ~neg /\ un.n >= cutoff THEN [err |-> ErrRange, n |-> cutoff - 1]
             ELSE IF neg /\ un.n > cutoff THEN [err |-> ErrRange, n |-> -cutoff]
             ELSE [err |-> ErrNil, n |-> IF neg THEN -un.n ELSE un.n]

\* strconv.FormatInt(n, 10) for the numbers the model reaches
DigitChar(d) ==
    CASE d = 0 -> "0" [] d = 1 -> "1" [] d = 2 -> "2" [] d = 3 -> "3"
      [] d = 4 -> "4" [] d = 5 -> "5" [] d = 6 -> "6" [] d = 7 -> "7"
      [] d = 8 -> "8" [] OTHER -> "9"

RECURSIVE FormatUint(_)
FormatUint(n) ==
    IF n < 10 THEN <<DigitChar(n)>>
    ELSE FormatUint(n \div 10) \o <<DigitChar(n % 10)>>

FormatInt(n) == IF n < 0 THEN <<"-">> \o FormatUint(-n) ELSE FormatUint(n)

FormatBool(b) == IF b THEN <<"t","r","u","e">> ELSE <<"f","a","l","s","e">>

\* strconv.ParseFloat for the texts of the model: NaN in any case, or a
\* decimal whole number with an optional sign
ParseFloat(str) ==
    IF str = <<>> THEN [err |-> ErrSyntax, n |-> 0, nan |-> FALSE]
    ELSE LET body == IF str[1] \in {"+", "-"} THEN Tail(str) ELSE str
             n == IF body = <<>> THEN -1 ELSE Digits(body, 10, 0)
         IN  IF ToLower(body) = <<"n","a","n">> THEN [err |-> ErrNil, n |-> 0, nan |-> TRUE]
             ELSE IF n = -1 THEN [err |-> ErrSyntax, n |-> 0, nan |-> FALSE]
             ELSE [err |-> ErrNil, n |-> IF str[1] = "-" THEN -n ELSE n, nan |-> FALSE]

\* strconv.FormatFloat(f, 'g', -1, 64) for NaN and the whole numbers the model reaches
FormatFloat(n, nan) == IF nan THEN <<"N","a","N">> ELSE FormatInt(n)

\* the seconds of one unit of time.ParseDuration; 0 for a text that is no unit
\* (the units below a second are not modelled)
UnitSeconds(unit) ==
    CASE unit = <<"s">> -> 1 [] unit = <<"m">> -> 60 [] unit = <<"h">> -> 3600
      [] OTHER -> 0

\* the loop of time.ParseDuration over number-unit pairs: acc is the sum so far,
\* num the number being read (-1: none), unit the unit being read; -1 is an error
RECURSIVE DurationPairs(_, _, _, _)
DurationPairs(str, acc, num, unit) ==
    IF str = <<>>
    THEN IF num = -1 \/ UnitSeconds(unit) = 0 THEN -1 ELSE acc + num * UnitSeconds(unit)
    ELSE IF DigitVal(Head(str)) < 10
         THEN IF unit = <<>>
              THEN DurationPairs(Tail(str), acc,
                                 (IF num = -1 THEN 0 ELSE num * 10) + DigitVal(Head(str)), unit)
              ELSE IF UnitSeconds(unit) = 0 THEN -1
                   ELSE DurationPairs(Tail(str), acc + num * UnitSeconds(unit),
                                      DigitVal(Head(str)), <<>>)
         ELSE IF num = -1 THEN -1
              ELSE DurationPairs(Tail(str), acc, num, Append(unit, Head(str)))

\* time.ParseDuration for whole seconds, minutes and hours
ParseDuration(str) ==
    LET neg == str # <<>> /\ str[1] = "-"
        body == IF str # <<>> /\ str[1] \in {"+", "-"} THEN Tail(str) ELSE str
        n == IF body = <<>> THEN -1 ELSE DurationPairs(body, 0, -1, <<>>)
    IN  IF body = <<"0">> THEN [err |-> ErrNil, n |-> 0]
        ELSE IF n = -1 THEN [err |-> ErrSyntax, n |-> 0]
        ELSE [err |-> ErrNil, n |-> IF neg THEN -n ELSE n]

\* time.Duration.String for whole seconds
FormatDuration(n) ==
    LET a == IF n < 0 THEN -n ELSE n
        h == a \div 3600
        m == (a % 3600) \div 60
        sec == a % 60
        sign == IF n < 0 THEN <<"-">> ELSE <<>>
    IN  IF h > 0 THEN sign \o FormatUint(h) \o <<"h">> \o FormatUint(m) \o <<"m">>
                      \o FormatUint(sec) \o <<"s">>
        ELSE IF m > 0 THEN sign \o FormatUint(m) \o <<"m">> \o FormatUint(sec) \o <<"s">>
        ELSE sign \o FormatUint(sec) \o <<"s">>

(***************************************************************************)
(* Typed values.  A cell is one value of a builtin type; a Value is       *)
(* either a plain cell or a pointer (addr) to a cell of external storage. *)
(***************************************************************************)
BoolCell(b) == [type |-> "bool", b |-> b, i |-> 0, s |-> <<>>, nan |-> FALSE]
IntCell(type, n) == [type |-> type, b |-> FALSE, i |-> n, s |-> <<>>, nan |-> FALSE]
StrCell(str) == [type |-> "string", b |-> FALSE, i |-> 0, s |-> str, nan |-> FALSE]
\* a float64: a whole number, or NaN
FloatCell(n, nan) == [type |-> "float64", b |-> FALSE, i |-> n, s |-> <<>>, nan |-> nan]
\* a time.Duration, in seconds
DurationCell(n) == [type |-> "duration", b |-> FALSE, i |-> n, s |-> <<>>, nan |-> FALSE]

Plain(cell) == [nil |-> FALSE, ptr |-> FALSE, addr |-> 0, cell |-> cell]
NilValue == [nil |-> TRUE, ptr |-> FALSE, addr |-> 0, cell |-> BoolCell(FALSE)]

NoErr == [type |-> "", cause |-> ErrNil]
CastErr(type, cause) == [type |-> type, cause |-> cause]

\* a value of a type of the caller's: "custom" is the customSetting of the tests,
\* which keeps the text it is given; "strict" also has the three capabilities
\* and its UnmarshalSetting rejects the text "x"; "opaque" has none of them and
\* s is what %v prints for it
CustomCell(type, str) == [type |-> type, b |-> FALSE, i |-> 0, s |-> str, nan |-> FALSE]
CapableTypes == {"custom", "strict"}
CustomTypes == CapableTypes \cup {"opaque"}

\* the value's UnmarshalSetting: [err, cell]
UnmarshalSetting(type, text) ==
    IF type = "strict" /\ text = <<"x">>
    THEN [err |-> ErrUser, cell |-> CustomCell(type, <<>>)]
    ELSE [err |-> ErrNil, cell |-> CustomCell(type, text)]

\* the value's MarshalSetting
MarshalSetting(cell) == cell.s

\* the value's Equals
UserEquals(cell, text) == cell.s = text

\* the parse of one builtin case of the type switch: [err, cell]
ParseBuiltin(type, text) ==
    CASE type = "string" -> [err |-> ErrNil, cell |-> StrCell(text)]
      [] type = "bool" ->
            LET pv == ParseBool(text) IN [err |-> pv.err, cell |-> BoolCell(pv.b)]
      [] type = "int8" ->
            LET pv == ParseInt(text, 8) IN [err |-> pv.err, cell |-> IntCell(type, pv.n)]
      [] type = "uint8" ->
            LET pv == ParseUint(text, 8) IN [err |-> pv.err, cell |-> IntCell(type, pv.n)]
      [] type = "float64" ->
            LET pv == ParseFloat(text) IN [err |-> pv.err, cell |-> FloatCell(pv.n, pv.nan)]
      [] type = "duration" ->
            LET pv == ParseDuration(text) IN [err |-> pv.err, cell |-> DurationCell(pv.n)]

\* a type switch without the Unmarshaler test in its default case
ParseAsBuiltinOnly(type, text) ==
    IF type \in CustomTypes
    THEN [err |-> ErrUnsupported, cell |-> CustomCell(type, <<>>)]
    ELSE ParseBuiltin(type, text)

\* the type switch of Setting.Set: [err, cell]; its default case calls the
\* value's UnmarshalSetting if it has one and fails otherwise
ParseAs(type, text) ==
    IF type \in CapableTypes THEN UnmarshalSetting(type, text)
    ELSE IF type = "opaque"
         THEN [err |-> ErrUnsupported, cell |-> CustomCell(type, <<>>)]
         ELSE ParseBuiltin(type, text)

\* Setting.String on the current cell, before masking
FormatCell(cell) ==
    CASE cell.type = "string" -> cell.s
      [] cell.type \in CapableTypes -> MarshalSetting(cell)
      [] cell.type = "opaque" -> cell.s
      [] cell.type = "bool" -> FormatBool(cell.b)
      [] cell.type = "float64" -> FormatFloat(cell.i, cell.nan)
      [] cell.type = "duration" -> FormatDuration(cell.i)
      [] OTHER -> FormatInt(cell.i)

\* an Equals that compares the text with the formatted value instead of parsing it
EqualsCellByText(cell, text) == FormatCell(cell) = text

\* Setting.Equals on the current cell
EqualsCell(cell, text) ==
    LET pv == ParseAs(cell.type, text)
    IN  IF cell.type \in CapableTypes THEN UserEquals(cell, text)
        ELSE IF cell.type = "opaque" THEN FormatCell(cell) = text
        ELSE IF pv.err # ErrNil THEN FALSE
        ELSE IF cell.nan \/ pv.cell.nan THEN FALSE   \* NaN == NaN is false
        ELSE cell = pv.cell

MaskText == <<"*","*","*","*","*">>

(***************************************************************************)
(* Inputs of the operations.                                              *)
(***************************************************************************)
Texts == { <<"t","r","u","e">>, <<"1">>, <<"0">>, <<"5">>, <<"0","x","5">>,
           <<"2","0","0">>, <<"x">> }

\* the values handed to Set.Setting: plain values and pointers to variables
InitCells == { BoolCell(FALSE), IntCell("int8", 5), IntCell("uint8", 5), StrCell(<<"x">>) }
InitValues == [nil : {FALSE}, ptr : BOOLEAN, addr : {0}, cell : InitCells]

(***************************************************************************)
(* State.                                                                 *)
(*   sets        the Set objects; sets[1] is the top-level Set            *)
(*   children    the top-level Set's children map (lowercased path -> Set)*)
(*   settingsMap the top-level Set's settings map (lowercased path ->     *)
(*               Setting)                                                 *)
(*   settings    the Setting objects; notifiers holds the handles of the  *)
(*               callers' subscriptions, owner the Set whose              *)
(*               notifyChanged Set.Setting subscribed (its handle is      *)
(*               discarded), via the Set the Setting was created through  *)
(*   mem         the external variables that pointer Values point to      *)
(*   handles     the NotifyHandle objects handed to callers; coll and id  *)
(*               are the collection stopFunc deletes from                 *)
(*   pc, frame   each thread's position and the locals of its call        *)
(*   ret         the result of each thread's last completed call          *)
(*   calls       the Settings that each handle's Notifier was invoked     *)
(*               with by the thread's last call, in order                 *)
(***************************************************************************)
VARIABLES sets, children, settingsMap, settings, mem, handles, pc, frame, ret, calls

vars == <<sets, children, settingsMap, settings, mem, handles, pc, frame, ret, calls>>

Nil == 0
TopSet == 1

SetIds == 1..Len(sets)
SettingIds == 1..Len(settings)
HandleIds == 1..Len(handles)
AllHandleIds == 1..MaxHandles

NoCalls == [h \in AllHandleIds |-> <<>>]

\* the locals of a call; before is the Setting's value when Setting.Set was entered
\* again: the call repeats the caller's previous call; stack: the Ranges over
\* notifiers that the call is in, innermost last; start: the handles whose
\* subscriptions the dispatch could reach when it began; log: the Notifier
\* calls of the dispatch in their order, each with the handle and the value
\* that the Notifier reads from the Setting
NoFrame == [op |-> "", set |-> Nil, setting |-> Nil, name |-> <<>>, text |-> <<>>,
            same |-> FALSE, before |-> BoolCell(FALSE), again |-> FALSE,
            stack |-> <<>>, start |-> {}, log |-> <<>>,
            work |-> <<>>, shape |-> "", base |-> 0, first |-> 0, firstSet |-> 0]

\* op: the call; set, name, text: its receiver and arguments; obj: the object
\* returned (Set, Setting or handle); found: the boolean returned by Set.Set, or
\* whether Subset found the child; setting: the Setting a Set call resolved to;
\* same: what Equals gave before the mutation; before: the Setting's value when
\* Setting.Set was entered; rows: the rows that Dump wrote after the header; str: the text returned by String; again: the call
\* repeated the caller's previous call
NoRet == [op |-> "", set |-> Nil, name |-> <<>>, text |-> <<>>, setting |-> Nil,
          obj |-> Nil, found |-> FALSE, err |-> NoErr, panicked |-> FALSE,
          visited |-> {}, same |-> FALSE, before |-> BoolCell(FALSE),
          str |-> <<>>, again |-> FALSE, start |-> {}, log |-> <<>>, rows |-> {},
          shape |-> "", base |-> 0, first |-> 0, firstSet |-> 0]

\* sync.Map.Store
Store(m, k, v) == [x \in DOMAIN m \cup {k} |-> IF x = k THEN v ELSE m[x]]

\* Set.Root
Root(s) == IF sets[s].root = Nil THEN s ELSE sets[s].root

\* Set.Parent
Parent(s) == IF sets[s].parent = Nil THEN s ELSE sets[s].parent

\* the current cell of a Value
Deref(value) == IF value.ptr THEN mem[value.addr] ELSE value.cell

\* Setting.Equals
Equals(x, text) == EqualsCell(Deref(settings[x].Value), text)

\* a String that formats the value whether the Setting is masked or not
StringUnmasked(x) == FormatCell(Deref(settings[x].Value))

\* Setting.String
String(x) == IF settings[x].Mask THEN MaskText ELSE FormatCell(Deref(settings[x].Value))

\* Setting.IsDefault
IsDefault(x) == Equals(x, settings[x].DefaultValue)

Init ==
    /\ sets = << [name |-> <<>>, path |-> <<>>, root |-> Nil, parent |-> Nil,
                  notifiers |-> {}] >>
    /\ children = <<>>
    /\ settingsMap = <<>>
    /\ settings = <<>>
    /\ mem = <<>>
    /\ handles = <<>>
    /\ pc = [t \in Threads |-> "idle"]
    /\ frame = [t \in Threads |-> NoFrame]
    /\ ret = [t \in Threads |-> NoRet]
    /\ calls = [t \in Threads |-> NoCalls]

\* a call returns: its result is recorded for the caller
Return(t, r) ==
    /\ pc' = [pc EXCEPT ![t] = "done"]
    /\ frame' = [frame EXCEPT ![t] = NoFrame]
    /\ ret' = [ret EXCEPT ![t] = r]

\* the caller has looked at the result of its call and is ready for the next
Forget(t) ==
    /\ pc[t] = "done"
    /\ pc' = [pc EXCEPT ![t] = "idle"]
    /\ ret' = [ret EXCEPT ![t] = NoRet]
    /\ calls' = [calls EXCEPT ![t] = NoCalls]
    /\ UNCHANGED <<sets, children, settingsMap, settings, mem, handles, frame>>

(***************************************************************************)
(* Set.Get, Set.Subset                                                    *)
(***************************************************************************)
\* the path of a child or of a setting of Set s
ChildPath(s, name) == IF sets[s].path = <<>> THEN name ELSE DotJoin(sets[s].path, name)

\* a Get that looks the name up as a full path only
GetFullPathOnly(s, name) ==
    LET full == ToLower(name)
    IN  IF full \in DOMAIN settingsMap THEN settingsMap[full] ELSE Nil

\* Set.Get: the Setting found, or Nil
Get(s, name) ==
    LET full == ToLower(name)
        path == ToLower(DotJoin(sets[s].path, name))
    IN  IF full \in DOMAIN settingsMap THEN settingsMap[full]
        ELSE IF path \in DOMAIN settingsMap THEN settingsMap[path]
        ELSE Nil

GetCall(t, s, name) ==
    /\ pc[t] = "idle"
    /\ UNCHANGED calls
    /\ Return(t, [NoRet EXCEPT !.op = "Get", !.set = s, !.name = name,
                               !.obj = Get(s, name)])
    /\ UNCHANGED <<sets, children, settingsMap, settings, mem, handles>>

\* the Sets that some thread is about to store
PendingStores == Cardinality({u \in Threads : pc[u] = "SubsetStore"})

\* Set.Subset up to the Load: an existing child is returned
SubsetLoad(t, s, name) ==
    /\ pc[t] = "idle"
    /\ UNCHANGED calls
    /\ LET key == ToLower(ChildPath(s, name))
       IN  IF key \in DOMAIN children
           THEN Return(t, [NoRet EXCEPT !.op = "Subset", !.set = s, !.name = name,
                                        !.found = TRUE, !.obj = children[key]])
           ELSE /\ Len(sets) + PendingStores <= MaxSets
                /\ pc' = [pc EXCEPT ![t] = "SubsetStore"]
                /\ frame' = [frame EXCEPT ![t] =
                                [NoFrame EXCEPT !.op = "Subset", !.set = s, !.name = name]]
                /\ UNCHANGED ret
    /\ UNCHANGED <<sets, children, settingsMap, settings, mem, handles>>

\* a Subset that stores the child under the path as it was written
SubsetStoreExactKey(t) ==
    /\ pc[t] = "SubsetStore"
    /\ LET s == frame[t].set
           name == frame[t].name
           id == Len(sets) + 1
       IN  /\ sets' = Append(sets, [name |-> name, path |-> ChildPath(s, name),
                                    root |-> Root(s), parent |-> s, notifiers |-> {}])
           /\ children' = Store(children, ChildPath(s, name), id)
           /\ Return(t, [NoRet EXCEPT !.op = "Subset", !.set = s, !.name = name,
                                      !.obj = id])
    /\ UNCHANGED <<settingsMap, settings, mem, handles, calls>>

\* Set.Subset from the allocation of the new child to the Store
SubsetStore(t) ==
    /\ pc[t] = "SubsetStore"
    /\ LET s == frame[t].set
           name == frame[t].name
           id == Len(sets) + 1
       IN  /\ sets' = Append(sets, [name |-> name, path |-> ChildPath(s, name),
                                    root |-> Root(s), parent |-> s, notifiers |-> {}])
           /\ children' = Store(children, ToLower(ChildPath(s, name)), id)
           /\ Return(t, [NoRet EXCEPT !.op = "Subset", !.set = s, !.name = name,
                                      !.obj = id])
    /\ UNCHANGED <<settingsMap, settings, mem, handles, calls>>

(***************************************************************************)
(* Notification                                                           *)
(***************************************************************************)
\* the Sets that notifyChanged visits from s, in order
RECURSIVE Chain(_)
Chain(s) == IF sets[s].parent = Nil THEN <<s>> ELSE <<s>> \o Chain(sets[s].parent)

\* x delivered n times
Times(n, x) == [i \in 1..n |-> x]

\* notifyChanged without the call of the parent
NotifyChangedNoParent(s, x) ==
    [h \in AllHandleIds |-> IF h \in sets[s].notifiers THEN <<x>> ELSE <<>>]

\* notifyChanged that serves the subscribers of every Set of the tree
NotifyChangedEverySet(s, x) ==
    [h \in AllHandleIds |->
        IF \E u \in SetIds : h \in sets[u].notifiers THEN <<x>> ELSE <<>>]

\* Set.notifyChanged(x): the Settings that each handle's Notifier is invoked with
NotifyChanged(s, x) ==
    [h \in AllHandleIds |->
        Times(Cardinality({i \in DOMAIN Chain(s) : h \in sets[Chain(s)[i]].notifiers}), x)]

\* a dispatch loop that skips the Setting's own subscribers
DispatchSetsOnly(x) ==
    [h \in AllHandleIds |->
        IF settings[x].owner # Nil THEN NotifyChanged(settings[x].owner, x)[h] ELSE <<>>]

\* the dispatch loop of Setting.Set: the Settings that each handle's Notifier is
\* invoked with; the entry of the owning Set's notifyChanged is settings[x].owner
Dispatch(x) ==
    [h \in AllHandleIds |->
        (IF h \in settings[x].notifiers THEN <<x>> ELSE <<>>)
        \o (IF settings[x].owner # Nil THEN NotifyChanged(settings[x].owner, x)[h] ELSE <<>>)]

\* Set.Notify; n is the Notifier passed: "nil", or a callback that only records
\* the call ("user"), that also closes its own handle ("closer"), or that also
\* registers one more subscriber ("subscriber")
SetNotify(t, s, n) ==
    /\ pc[t] = "idle"
    /\ Len(handles) < MaxHandles
    /\ LET h == Len(handles) + 1
       IN  /\ IF n = "nil"
              THEN /\ handles' = Append(handles, [coll |-> "none", id |-> Nil, closed |-> FALSE, kind |-> n])
                   /\ UNCHANGED sets
              ELSE /\ handles' = Append(handles, [coll |-> "set", id |-> s, closed |-> FALSE, kind |-> n])
                   /\ sets' = [sets EXCEPT ![s].notifiers = @ \cup {h}]
           /\ Return(t, [NoRet EXCEPT !.op = "SetNotify", !.obj = h])
    /\ UNCHANGED calls
    /\ UNCHANGED <<children, settingsMap, settings, mem>>

\* Setting.Notify; n as for Set.Notify
SettingNotify(t, x, n) ==
    /\ pc[t] = "idle"
    /\ Len(handles) < MaxHandles
    /\ LET h == Len(handles) + 1
       IN  /\ IF n = "nil"
              THEN /\ handles' = Append(handles, [coll |-> "none", id |-> Nil, closed |-> FALSE, kind |-> n])
                   /\ UNCHANGED settings
              ELSE /\ handles' = Append(handles, [coll |-> "setting", id |-> x, closed |-> FALSE, kind |-> n])
                   /\ settings' = [settings EXCEPT ![x].notifiers = @ \cup {h}]
           /\ Return(t, [NoRet EXCEPT !.op = "SettingNotify", !.obj = h])
    /\ UNCHANGED calls
    /\ UNCHANGED <<sets, children, settingsMap, mem>>

\* a NotifyHandle{} made by the caller, as Notify(nil) returns it
ZeroHandle(t) ==
    /\ pc[t] = "idle"
    /\ Len(handles) < MaxHandles
    /\ handles' = Append(handles, [coll |-> "none", id |-> Nil, closed |-> FALSE,
                                   kind |-> "zero"])
    /\ Return(t, [NoRet EXCEPT !.op = "ZeroHandle", !.obj = Len(handles) + 1])
    /\ UNCHANGED calls
    /\ UNCHANGED <<sets, children, settingsMap, settings, mem>>

\* a Close that empties the collection the handle was issued by
CloseAll(t, h) ==
    /\ pc[t] = "idle"
    /\ handles' = [handles EXCEPT ![h].closed = TRUE]
    /\ sets' = IF handles[h].coll = "set"
               THEN [sets EXCEPT ![handles[h].id].notifiers = {}]
               ELSE sets
    /\ settings' = IF handles[h].coll = "setting"
                   THEN [settings EXCEPT ![handles[h].id].notifiers = {}]
                   ELSE settings
    /\ Return(t, [NoRet EXCEPT !.op = "Close", !.obj = h])
    /\ UNCHANGED calls
    /\ UNCHANGED <<children, settingsMap, mem>>

\* a Close that leaves the subscription in its collection
CloseKeeps(t, h) ==
    /\ pc[t] = "idle"
    /\ handles' = [handles EXCEPT ![h].closed = TRUE]
    /\ Return(t, [NoRet EXCEPT !.op = "Close", !.obj = h])
    /\ UNCHANGED calls
    /\ UNCHANGED <<sets, children, settingsMap, settings, mem>>

\* NotifyHandle.Close; closed records that the caller has closed the handle
Close(t, h) ==
    /\ pc[t] = "idle"
    /\ handles' = [handles EXCEPT ![h].closed = TRUE]
    /\ sets' = IF handles[h].coll = "set"
               THEN [sets EXCEPT ![handles[h].id].notifiers = @ \ {h}]
               ELSE sets
    /\ settings' = IF handles[h].coll = "setting"
                   THEN [settings EXCEPT ![handles[h].id].notifiers = @ \ {h}]
                   ELSE settings
    /\ Return(t, [NoRet EXCEPT !.op = "Close", !.obj = h])
    /\ UNCHANGED calls
    /\ UNCHANGED <<children, settingsMap, mem>>

(***************************************************************************)
(* Set.Setting                                                            *)
(***************************************************************************)
\* a Set.Setting that registers with Store: an existing Setting is replaced
SettingRegisterOverwrite(t, s, name, value, cap) ==
    /\ pc[t] = "idle"
    /\ UNCHANGED calls
    /\ LET path == ChildPath(s, name)
           key == ToLower(path)
           x == Len(settings) + 1
           stored == IF value.ptr THEN [value EXCEPT !.addr = Len(mem) + 1] ELSE value
           r == [NoRet EXCEPT !.op = "Setting", !.set = s, !.name = name]
       IN  IF name = <<>> \/ value.nil
           THEN /\ Return(t, [r EXCEPT !.panicked = TRUE])
                /\ UNCHANGED <<settingsMap, settings, mem>>
           ELSE /\ Len(settings) < cap
                /\ mem' = IF value.ptr THEN Append(mem, value.cell) ELSE mem
                /\ settings' = Append(settings,
                        [Mask |-> FALSE, Name |-> name, Path |-> path,
                         DefaultValue |-> FormatCell(value.cell),
                         Value |-> stored, notifiers |-> {}, owner |-> Nil,
                         via |-> s])
                /\ settingsMap' = Store(settingsMap, key, x)
                /\ pc' = [pc EXCEPT ![t] = "SettingSubscribe"]
                /\ frame' = [frame EXCEPT ![t] =
                        [NoFrame EXCEPT !.op = "Setting", !.set = s, !.name = name,
                                        !.setting = x]]
                /\ UNCHANGED ret
    /\ UNCHANGED <<sets, children, handles>>

\* Set.Setting up to the LoadOrStore: the preconditions, the new Setting with
\* its DefaultValue, and its registration in the top-level Set's map; cap
\* bounds the number of Settings
SettingRegister(t, s, name, value, cap) ==
    /\ pc[t] = "idle"
    /\ UNCHANGED calls
    /\ LET path == ChildPath(s, name)
           key == ToLower(path)
           x == Len(settings) + 1
           stored == IF value.ptr THEN [value EXCEPT !.addr = Len(mem) + 1] ELSE value
           r == [NoRet EXCEPT !.op = "Setting", !.set = s, !.name = name]
       IN  IF name = <<>> \/ value.nil \/ key \in DOMAIN settingsMap
           THEN /\ Return(t, [r EXCEPT !.panicked = TRUE])
                /\ UNCHANGED <<settingsMap, settings, mem>>
           ELSE /\ Len(settings) < cap
                /\ mem' = IF value.ptr THEN Append(mem, value.cell) ELSE mem
                /\ settings' = Append(settings,
                        [Mask |-> FALSE, Name |-> name, Path |-> path,
                         DefaultValue |-> FormatCell(value.cell),
                         Value |-> stored, notifiers |-> {}, owner |-> Nil,
                         via |-> s])
                /\ settingsMap' = Store(settingsMap, key, x)
                /\ pc' = [pc EXCEPT ![t] = "SettingSubscribe"]
                /\ frame' = [frame EXCEPT ![t] =
                        [NoFrame EXCEPT !.op = "Setting", !.set = s, !.name = name,
                                        !.setting = x]]
                /\ UNCHANGED ret
    /\ UNCHANGED <<sets, children, handles>>

\* Set.Setting: setting.Notify(NotifyFunc(s.notifyChanged))
SettingSubscribe(t) ==
    /\ pc[t] = "SettingSubscribe"
    /\ settings' = [settings EXCEPT ![frame[t].setting].owner = frame[t].set]
    /\ pc' = [pc EXCEPT ![t] = "SettingAnnounce"]
    /\ UNCHANGED <<sets, children, settingsMap, mem, handles, frame, ret, calls>>

\* a Set.Setting without the deferred s.notifyChanged(setting)
SettingAnnounceSilent(t) ==
    /\ pc[t] = "SettingAnnounce"
    /\ UNCHANGED calls
    /\ Return(t, [NoRet EXCEPT !.op = "Setting", !.set = frame[t].set,
                               !.name = frame[t].name,
                               !.setting = frame[t].setting,
                               !.obj = frame[t].setting])
    /\ UNCHANGED <<sets, children, settingsMap, settings, mem, handles>>

\* Set.Setting: the deferred s.notifyChanged(setting), and the return
SettingAnnounce(t) ==
    /\ pc[t] = "SettingAnnounce"
    /\ calls' = [calls EXCEPT ![t] = NotifyChanged(frame[t].set, frame[t].setting)]
    /\ Return(t, [NoRet EXCEPT !.op = "Setting", !.set = frame[t].set,
                               !.name = frame[t].name,
                               !.setting = frame[t].setting,
                               !.obj = frame[t].setting])
    /\ UNCHANGED <<sets, children, settingsMap, settings, mem, handles>>

(***************************************************************************)
(* Set.Bind                                                               *)
(***************************************************************************)
\* a field of a bound structure: its name, its `setting` tag, its kind, its
\* `mask` tag, whether it can be set (it is exported), the value it holds and,
\* for a struct field or a pointer field, the structure type
Field(name, tag, kind, mask, exported, cell, sub) ==
    [name |-> name, tag |-> tag, kind |-> kind, mask |-> mask,
     exported |-> exported, cell |-> cell, sub |-> sub]

\* the structure types that are bound; "nilptr" is a pointer field that holds nil
Structs ==
    [ inner |-> << Field(<<"P">>, <<>>, "int8", FALSE, TRUE, IntCell("int8", 5), "") >>,
      outer |-> << Field(<<"N">>, <<"n">>, "string", TRUE, TRUE, StrCell(<<"x">>), ""),
                   Field(<<"H">>, <<>>, "struct", FALSE, TRUE, BoolCell(FALSE), "inner"),
                   Field(<<"Q">>, <<>>, "ptr", FALSE, TRUE, BoolCell(FALSE), "inner"),
                   Field(<<"u">>, <<>>, "bool", FALSE, FALSE, BoolCell(FALSE), ""),
                   Field(<<"S">>, <<"-">>, "bool", FALSE, TRUE, BoolCell(FALSE), ""),
                   Field(<<"C">>, <<>>, "chan", FALSE, TRUE, BoolCell(FALSE), ""),
                   Field(<<"F">>, <<>>, "func", FALSE, TRUE, BoolCell(FALSE), "") >>,
      broken |-> << Field(<<"Z">>, <<>>, "nilptr", FALSE, TRUE, BoolCell(FALSE), ""),
                    Field(<<"B">>, <<>>, "bool", FALSE, TRUE, BoolCell(FALSE), "") >> ]

\* the storage of the scalar fields of a structure, nested structures included
RECURSIVE CellsOf(_)
CellsOf(fields) ==
    IF fields = <<>> THEN <<>>
    ELSE LET f == Head(fields)
         IN  (CASE f.kind \in {"struct", "ptr"} -> CellsOf(Structs[f.sub])
                [] f.kind \in {"chan", "func", "nilptr"} -> <<>>
                [] OTHER -> <<f.cell>>) \o CellsOf(Tail(fields))

\* the loops over the fields that are still running, innermost first, without
\* those that have reached their last field
RECURSIVE DropDone(_)
DropDone(work) ==
    IF work = <<>> THEN <<>>
    ELSE IF Head(work).fields = <<>> THEN DropDone(Tail(work)) ELSE work

\* the result of the Bind that thread t is in
BindRet(t, panicked) ==
    [NoRet EXCEPT !.op = "Bind", !.set = frame[t].set, !.shape = frame[t].shape,
                  !.base = frame[t].base, !.first = frame[t].first,
                  !.firstSet = frame[t].firstSet, !.panicked = panicked]

\* Set.Bind: on to the next field, or the return after the last
BindContinue(t, work) ==
    IF DropDone(work) = <<>>
    THEN Return(t, BindRet(t, FALSE))
    ELSE /\ frame' = [frame EXCEPT ![t].work = DropDone(work)]
         /\ UNCHANGED <<pc, ret>>

\* Set.Bind up to the loop: the panics for a value that is no pointer to a
\* struct; the bound structure is the caller's, its fields are in mem, and
\* one structure is bound in a behaviour
BindCall(t, s, shape) ==
    /\ pc[t] = "idle"
    /\ UNCHANGED calls
    /\ IF shape \notin DOMAIN Structs
       THEN /\ Return(t, [NoRet EXCEPT !.op = "Bind", !.set = s, !.panicked = TRUE])
            /\ UNCHANGED mem
       ELSE /\ Len(sets) < MaxSets /\ mem = <<>>
            /\ mem' = mem \o CellsOf(Structs[shape])
            /\ pc' = [pc EXCEPT ![t] = "BindField"]
            /\ frame' = [frame EXCEPT ![t] =
                    [NoFrame EXCEPT !.op = "Bind", !.set = s, !.shape = shape,
                                    !.base = Len(mem) + 1, !.first = Len(settings),
                                    !.firstSet = Len(sets),
                                    !.work = <<[set |-> s, fields |-> Structs[shape],
                                                addr |-> Len(mem) + 1]>>]]
            /\ UNCHANGED ret
    /\ UNCHANGED <<sets, children, settingsMap, settings, handles>>

\* a Bind that passes the field's value to Set.Setting, not its address
BindFieldByValue(t) ==
    /\ pc[t] = "BindField"
    /\ LET top == Head(frame[t].work)
           f == Head(top.fields)
           s == top.set
           name == IF f.tag # <<>> THEN f.tag ELSE f.name
           after == [top EXCEPT !.fields = Tail(top.fields),
                                !.addr = top.addr + Len(CellsOf(<<f>>))]
           rest == Tail(frame[t].work)
       IN  CASE ~f.exported \/ name = <<"-">> \/ f.kind \in {"chan", "func"} ->
                  /\ BindContinue(t, <<after>> \o rest)
                  /\ UNCHANGED <<sets, children, settingsMap, settings, calls>>
             [] f.exported /\ name # <<"-">> /\ f.kind \in {"struct", "ptr", "nilptr"} ->
                  LET key == ToLower(ChildPath(s, name))
                      found == key \in DOMAIN children
                      child == IF found THEN children[key] ELSE Len(sets) + 1
                  IN  /\ sets' = IF found THEN sets
                                 ELSE Append(sets, [name |-> name, path |-> ChildPath(s, name),
                                                    root |-> Root(s), parent |-> s,
                                                    notifiers |-> {}])
                      /\ children' = IF found THEN children ELSE Store(children, key, child)
                      /\ IF f.kind = "nilptr"
                         THEN Return(t, BindRet(t, TRUE))
                         ELSE BindContinue(t, <<[set |-> child, fields |-> Structs[f.sub],
                                                 addr |-> top.addr], after>> \o rest)
                      /\ UNCHANGED <<settingsMap, settings, calls>>
             [] OTHER ->
                  LET path == ChildPath(s, name)
                      key == ToLower(path)
                      x == Len(settings) + 1
                  IN  IF key \in DOMAIN settingsMap
                      THEN /\ Return(t, BindRet(t, TRUE))
                           /\ UNCHANGED <<sets, children, settingsMap, settings, calls>>
                      ELSE /\ settings' = Append(settings,
                                  [Mask |-> f.mask, Name |-> name, Path |-> path,
                                   DefaultValue |-> FormatCell(mem[top.addr]),
                                   Value |-> Plain(mem[top.addr]),
                                   notifiers |-> {}, owner |-> s, via |-> s])
                           /\ settingsMap' = Store(settingsMap, key, x)
                           /\ calls' = [calls EXCEPT ![t] =
                                  [h \in AllHandleIds |-> calls[t][h] \o NotifyChanged(s, x)[h]]]
                           /\ BindContinue(t, <<after>> \o rest)
                           /\ UNCHANGED <<sets, children>>
    /\ UNCHANGED <<mem, handles>>

\* Set.Bind: one turn of the loop over the fields.  A field that cannot be set
\* or whose name resolves to "-" is passed over, a chan or func field does
\* nothing, a struct or pointer field is bound into s.Subset(name), and any
\* other field becomes s.Setting(name, &field, description) with its Mask
BindField(t) ==
    /\ pc[t] = "BindField"
    /\ LET top == Head(frame[t].work)
           f == Head(top.fields)
           s == top.set
           name == IF f.tag # <<>> THEN f.tag ELSE f.name
           after == [top EXCEPT !.fields = Tail(top.fields),
                                !.addr = top.addr + Len(CellsOf(<<f>>))]
           rest == Tail(frame[t].work)
       IN  CASE ~f.exported \/ name = <<"-">> \/ f.kind \in {"chan", "func"} ->
                  /\ BindContinue(t, <<after>> \o rest)
                  /\ UNCHANGED <<sets, children, settingsMap, settings, calls>>
             [] f.exported /\ name # <<"-">> /\ f.kind \in {"struct", "ptr", "nilptr"} ->
                  LET key == ToLower(ChildPath(s, name))
                      found == key \in DOMAIN children
                      child == IF found THEN children[key] ELSE Len(sets) + 1
                  IN  /\ sets' = IF found THEN sets
                                 ELSE Append(sets, [name |-> name, path |-> ChildPath(s, name),
                                                    root |-> Root(s), parent |-> s,
                                                    notifiers |-> {}])
                      /\ children' = IF found THEN children ELSE Store(children, key, child)
                      /\ IF f.kind = "nilptr"
                         THEN Return(t, BindRet(t, TRUE))
                         ELSE BindContinue(t, <<[set |-> child, fields |-> Structs[f.sub],
                                                 addr |-> top.addr], after>> \o rest)
                      /\ UNCHANGED <<settingsMap, settings, calls>>
             [] OTHER ->
                  LET path == ChildPath(s, name)
                      key == ToLower(path)
                      x == Len(settings) + 1
                  IN  IF key \in DOMAIN settingsMap
                      THEN /\ Return(t, BindRet(t, TRUE))
                           /\ UNCHANGED <<sets, children, settingsMap, settings, calls>>
                      ELSE /\ settings' = Append(settings,
                                  [Mask |-> f.mask, Name |-> name, Path |-> path,
                                   DefaultValue |-> FormatCell(mem[top.addr]),
                                   Value |-> [nil |-> FALSE, ptr |-> TRUE,
                                              addr |-> top.addr, cell |-> mem[top.addr]],
                                   notifiers |-> {}, owner |-> s, via |-> s])
                           /\ settingsMap' = Store(settingsMap, key, x)
                           /\ calls' = [calls EXCEPT ![t] =
                                  [h \in AllHandleIds |-> calls[t][h] \o NotifyChanged(s, x)[h]]]
                           /\ BindContinue(t, <<after>> \o rest)
                           /\ UNCHANGED <<sets, children>>
    /\ UNCHANGED <<mem, handles>>

(***************************************************************************)
(* Setting.Set and the registry's Set.Set                                 *)
(***************************************************************************)
\* a direct call of Setting.Set
SetCall(t, x, text) ==
    /\ pc[t] = "idle"
    /\ UNCHANGED calls
    /\ pc' = [pc EXCEPT ![t] = "SetEquals"]
    /\ frame' = [frame EXCEPT ![t] =
            [NoFrame EXCEPT !.op = "SettingSet", !.setting = x, !.text = text,
                            !.before = Deref(settings[x].Value)]]
    /\ UNCHANGED ret
    /\ UNCHANGED <<sets, children, settingsMap, settings, mem, handles>>

\* a second call of Setting.Set made with the text of the call that the caller
\* has just completed, on the same Setting
SetAgain(t) ==
    /\ pc[t] = "done"
    /\ ret[t].op = "SettingSet"
    /\ ~ret[t].again
    /\ calls' = [calls EXCEPT ![t] = NoCalls]
    /\ ret' = [ret EXCEPT ![t] = NoRet]
    /\ pc' = [pc EXCEPT ![t] = "SetEquals"]
    /\ frame' = [frame EXCEPT ![t] =
            [NoFrame EXCEPT !.op = "SettingSet", !.setting = ret[t].setting,
                            !.text = ret[t].text,
                            !.before = Deref(settings[ret[t].setting].Value),
                            !.again = TRUE]]
    /\ UNCHANGED <<sets, children, settingsMap, settings, mem, handles>>

\* Set.Set: the Get, and the return when nothing is found
RegistrySet(t, s, name, text) ==
    /\ pc[t] = "idle"
    /\ UNCHANGED calls
    /\ IF Get(s, name) = Nil
       THEN Return(t, [NoRet EXCEPT !.op = "RegistrySet", !.found = FALSE])
       ELSE /\ pc' = [pc EXCEPT ![t] = "SetEquals"]
            /\ frame' = [frame EXCEPT ![t] =
                    [NoFrame EXCEPT !.op = "RegistrySet", !.setting = Get(s, name),
                                    !.text = text,
                                    !.before = Deref(settings[Get(s, name)].Value)]]
            /\ UNCHANGED ret
    /\ UNCHANGED <<sets, children, settingsMap, settings, mem, handles>>

\* Setting.Set: same := s.Equals(v)
SetEquals(t) ==
    /\ pc[t] = "SetEquals"
    /\ frame' = [frame EXCEPT ![t].same = Equals(frame[t].setting, frame[t].text)]
    /\ pc' = [pc EXCEPT ![t] = "SetMutate"]
    /\ UNCHANGED <<sets, children, settingsMap, settings, mem, handles, ret, calls>>

\* a registry Set that returns no error for the Setting's error
SetRetSwallow(t, err) ==
    [NoRet EXCEPT !.op = frame[t].op, !.setting = frame[t].setting,
                  !.text = frame[t].text,
                  !.found = (frame[t].op = "RegistrySet"),
                  !.err = IF frame[t].op = "RegistrySet" THEN NoErr ELSE err,
                  !.same = frame[t].same, !.before = frame[t].before,
                  !.again = frame[t].again]

\* the result of the call that thread t is in
SetRet(t, err) ==
    [NoRet EXCEPT !.op = frame[t].op, !.setting = frame[t].setting,
                  !.text = frame[t].text,
                  !.found = (frame[t].op = "RegistrySet"), !.err = err,
                  !.same = frame[t].same, !.before = frame[t].before,
                  !.again = frame[t].again]

\* a type switch that stores what the parser returned before looking at the error
SetMutateStoreFirst(t) ==
    /\ pc[t] = "SetMutate"
    /\ LET x == frame[t].setting
           value == settings[x].Value
           pv == ParseAs(value.cell.type, frame[t].text)
       IN  /\ IF value.ptr
              THEN /\ mem' = [mem EXCEPT ![value.addr] = pv.cell]
                   /\ UNCHANGED settings
              ELSE /\ settings' = [settings EXCEPT ![x].Value.cell = pv.cell]
                   /\ UNCHANGED mem
           /\ IF pv.err # ErrNil
              THEN Return(t, SetRet(t, CastErr(value.cell.type, pv.err)))
              ELSE IF frame[t].same
                   THEN Return(t, SetRet(t, NoErr))
                   ELSE /\ pc' = [pc EXCEPT ![t] = "SetDispatch"]
                        /\ UNCHANGED <<frame, ret>>
    /\ UNCHANGED <<sets, children, settingsMap, handles, calls>>

\* a type switch that parses the text and leaves the store of a changed value
\* for later
SetMutateDefers(t) ==
    /\ pc[t] = "SetMutate"
    /\ LET x == frame[t].setting
           value == settings[x].Value
           pv == ParseAs(value.cell.type, frame[t].text)
       IN  IF pv.err # ErrNil
           THEN /\ Return(t, SetRet(t, CastErr(value.cell.type, pv.err)))
                /\ UNCHANGED <<settings, mem>>
           ELSE /\ UNCHANGED <<settings, mem>>
                /\ IF frame[t].same
                   THEN Return(t, SetRet(t, NoErr))
                   ELSE /\ pc' = [pc EXCEPT ![t] = "SetDispatch"]
                        /\ UNCHANGED <<frame, ret>>
    /\ UNCHANGED <<sets, children, settingsMap, handles, calls>>

\* a type switch that, for a pointer Value, puts the parsed value in the Value
\* slot and leaves the storage behind the pointer alone
SetMutateUnlinks(t) ==
    /\ pc[t] = "SetMutate"
    /\ LET x == frame[t].setting
           value == settings[x].Value
           pv == ParseAs(value.cell.type, frame[t].text)
       IN  IF pv.err # ErrNil
           THEN /\ Return(t, SetRet(t, CastErr(value.cell.type, pv.err)))
                /\ UNCHANGED <<settings, mem>>
           ELSE /\ settings' = [settings EXCEPT ![x].Value = Plain(pv.cell)]
                /\ UNCHANGED mem
                /\ IF frame[t].same
                   THEN Return(t, SetRet(t, NoErr))
                   ELSE /\ pc' = [pc EXCEPT ![t] = "SetDispatch"]
                        /\ UNCHANGED <<frame, ret>>
    /\ UNCHANGED <<sets, children, settingsMap, handles, calls>>

\* Setting.Set: the type switch, which parses the text and stores the value
SetMutate(t) ==
    /\ pc[t] = "SetMutate"
    /\ LET x == frame[t].setting
           value == settings[x].Value
           pv == ParseAs(value.cell.type, frame[t].text)
       IN  IF pv.err # ErrNil
           THEN /\ Return(t, SetRet(t, CastErr(value.cell.type, pv.err)))
                /\ UNCHANGED <<settings, mem>>
           ELSE /\ IF value.ptr
                   THEN /\ mem' = [mem EXCEPT ![value.addr] = pv.cell]
                        /\ UNCHANGED settings
                   ELSE /\ settings' = [settings EXCEPT ![x].Value.cell = pv.cell]
                        /\ UNCHANGED mem
                /\ IF frame[t].same
                   THEN Return(t, SetRet(t, NoErr))
                   ELSE /\ pc' = [pc EXCEPT ![t] = "SetDispatch"]
                        /\ UNCHANGED <<frame, ret>>
    /\ UNCHANGED <<sets, children, settingsMap, handles, calls>>

\* the text of a string header whose data pointer is that of p and whose length
\* is that of q; "?" stands for a byte that follows p's bytes in memory
Torn(p, q) ==
    IF Len(q) <= Len(p) THEN SubSeq(p, 1, Len(q))
    ELSE p \o [i \in 1..(Len(q) - Len(p)) |-> "?"]

\* what the storage can hold after two stores of a and of b that no
\* synchronisation orders: a store through a *string writes the two words of
\* the string header, every other store is one word
RaceOutcomes(ptr, a, b) ==
    IF ptr /\ a.type = "string"
    THEN {a, b, StrCell(Torn(a.s, b.s)), StrCell(Torn(b.s, a.s))}
    ELSE {a, b}

\* Setting.Set: the type switches of two calls on the same Setting, whose
\* stores are not ordered; Setting.Set takes no lock
SetMutateRace(t, u) ==
    /\ t # u
    /\ pc[t] = "SetMutate" /\ pc[u] = "SetMutate"
    /\ frame[t].setting = frame[u].setting
    /\ LET x == frame[t].setting
           value == settings[x].Value
           pt == ParseAs(value.cell.type, frame[t].text)
           pu == ParseAs(value.cell.type, frame[u].text)
           both == {t, u}
       IN  /\ pt.err = ErrNil /\ pu.err = ErrNil
           /\ \E cell \in RaceOutcomes(value.ptr, pt.cell, pu.cell) :
                 IF value.ptr
                 THEN /\ mem' = [mem EXCEPT ![value.addr] = cell]
                      /\ UNCHANGED settings
                 ELSE /\ settings' = [settings EXCEPT ![x].Value.cell = cell]
                      /\ UNCHANGED mem
           /\ pc' = [v \in Threads |->
                        IF v \notin both THEN pc[v]
                        ELSE IF frame[v].same THEN "done" ELSE "SetDispatch"]
           /\ frame' = [v \in Threads |->
                        IF v \in both /\ frame[v].same THEN NoFrame ELSE frame[v]]
           /\ ret' = [v \in Threads |->
                        IF v \in both /\ frame[v].same THEN SetRet(v, NoErr) ELSE ret[v]]
    /\ UNCHANGED <<sets, children, settingsMap, handles, calls>>

\* a notification that is skipped for a masked Setting
SetDispatchUnlessMasked(t) ==
    /\ pc[t] = "SetDispatch"
    /\ calls' = [calls EXCEPT ![t] = IF settings[frame[t].setting].Mask
                                     THEN NoCalls ELSE Dispatch(frame[t].setting)]
    /\ Return(t, SetRet(t, NoErr))
    /\ UNCHANGED <<sets, children, settingsMap, settings, mem, handles>>

\* Setting.Set: the notification of the changed value
SetDispatch(t) ==
    /\ pc[t] = "SetDispatch"
    /\ calls' = [calls EXCEPT ![t] = Dispatch(frame[t].setting)]
    /\ Return(t, SetRet(t, NoErr))
    /\ UNCHANGED <<sets, children, settingsMap, settings, mem, handles>>

(***************************************************************************)
(* The dispatch loops step by step, with Notifiers that change the         *)
(* notifiers map they are called from.  SetDispatch and SettingAnnounce    *)
(* are these loops in one step, for Notifiers that only record the call.   *)
(***************************************************************************)
\* one sync.Map.Range in progress over the notifiers of a Setting or of a Set:
\* todo holds the keys it has still to visit
RangeOver(coll, id, keys) == [coll |-> coll, id |-> id, todo |-> keys]

\* the keys of a Setting's notifiers: its handles and, as key 0, the entry that
\* Set.Setting stored for the owning Set's notifyChanged
SettingKeys(x) ==
    settings[x].notifiers \cup (IF settings[x].owner # Nil THEN {0} ELSE {})

\* the result of the call whose dispatch has ended
RangeRet(t) ==
    IF frame[t].op = "Setting"
    THEN [NoRet EXCEPT !.op = "Setting", !.set = frame[t].set, !.name = frame[t].name,
                       !.setting = frame[t].setting, !.obj = frame[t].setting,
                       !.start = frame[t].start, !.log = frame[t].log]
    ELSE [SetRet(t, NoErr) EXCEPT !.start = frame[t].start, !.log = frame[t].log]

\* the first Range of Setting.Set's dispatch, or of the notifyChanged that
\* Set.Setting defers
RangeBegin(t) ==
    /\ pc[t] \in {"SetDispatch", "SettingAnnounce"}
    /\ LET x == frame[t].setting
           first == IF pc[t] = "SetDispatch"
                    THEN RangeOver("setting", x, SettingKeys(x))
                    ELSE RangeOver("set", frame[t].set, sets[frame[t].set].notifiers)
           reach == IF pc[t] = "SetDispatch"
                    THEN Dispatch(x) ELSE NotifyChanged(frame[t].set, x)
       IN  frame' = [frame EXCEPT ![t].stack = <<first>>,
                                  ![t].start = {h \in HandleIds : reach[h] # <<>>}]
    /\ pc' = [pc EXCEPT ![t] = "Range"]
    /\ UNCHANGED <<sets, children, settingsMap, settings, mem, handles, ret, calls>>

\* the Range reaches the owning Set's entry: notifyChanged starts its own Range
RangeOwner(t) ==
    /\ pc[t] = "Range"
    /\ LET n == Len(frame[t].stack)
           top == frame[t].stack[n]
           owner == settings[frame[t].setting].owner
       IN  /\ 0 \in top.todo
           /\ frame' = [frame EXCEPT ![t].stack =
                   Append([@ EXCEPT ![n].todo = @ \ {0}],
                          RangeOver("set", owner, sets[owner].notifiers))]
    /\ UNCHANGED <<sets, children, settingsMap, settings, mem, handles, pc, ret, calls>>

\* a Range whose visit of a Notifier that closes its own handle ends the Range
RangeNotifyCloseStops(t, k) ==
    /\ pc[t] = "Range"
    /\ LET n == Len(frame[t].stack)
           top == frame[t].stack[n]
           hd == handles[k]
           closes == hd.kind = "closer"
           grows == hd.kind = "subscriber" /\ Len(handles) < MaxHandles
           new == Len(handles) + 1
           after(ns) == IF closes THEN ns \ {k} ELSE IF grows THEN ns \cup {new} ELSE ns
       IN  /\ k \in top.todo /\ k # 0
           /\ calls' = [calls EXCEPT ![t][k] = Append(@, frame[t].setting)]
           /\ handles' = IF closes THEN [handles EXCEPT ![k].closed = TRUE]
                         ELSE IF grows
                              THEN Append(handles, [coll |-> hd.coll, id |-> hd.id,
                                                    closed |-> FALSE, kind |-> "user"])
                              ELSE handles
           /\ sets' = IF hd.coll = "set"
                      THEN [sets EXCEPT ![hd.id].notifiers = after(@)] ELSE sets
           /\ settings' = IF hd.coll = "setting"
                          THEN [settings EXCEPT ![hd.id].notifiers = after(@)] ELSE settings
           /\ \E seen \in BOOLEAN :
                 /\ seen => grows
                 /\ frame' = [frame EXCEPT
                         ![t].stack[n].todo =
                             IF closes THEN {}
                             ELSE (@ \ {k}) \cup (IF seen THEN {new} ELSE {}),
                         ![t].log = Append(@, [h |-> k,
                             read |-> Deref(settings[frame[t].setting].Value)])]
    /\ UNCHANGED <<children, settingsMap, mem, pc, ret>>

\* the Range visits the entry of handle k and calls its Notifier, which records
\* the call and, by its kind, closes handle k or registers one more subscriber
\* with the same collection; a key stored during the Range may or may not be
\* visited by it
RangeNotify(t, k) ==
    /\ pc[t] = "Range"
    /\ LET n == Len(frame[t].stack)
           top == frame[t].stack[n]
           hd == handles[k]
           closes == hd.kind = "closer"
           grows == hd.kind = "subscriber" /\ Len(handles) < MaxHandles
           new == Len(handles) + 1
           after(ns) == IF closes THEN ns \ {k} ELSE IF grows THEN ns \cup {new} ELSE ns
       IN  /\ k \in top.todo /\ k # 0
           /\ calls' = [calls EXCEPT ![t][k] = Append(@, frame[t].setting)]
           /\ handles' = IF closes THEN [handles EXCEPT ![k].closed = TRUE]
                         ELSE IF grows
                              THEN Append(handles, [coll |-> hd.coll, id |-> hd.id,
                                                    closed |-> FALSE, kind |-> "user"])
                              ELSE handles
           /\ sets' = IF hd.coll = "set"
                      THEN [sets EXCEPT ![hd.id].notifiers = after(@)] ELSE sets
           /\ settings' = IF hd.coll = "setting"
                          THEN [settings EXCEPT ![hd.id].notifiers = after(@)] ELSE settings
           /\ \E seen \in BOOLEAN :
                 /\ seen => grows
                 /\ frame' = [frame EXCEPT
                         ![t].stack[n].todo =
                             (@ \ {k}) \cup (IF seen THEN {new} ELSE {}),
                         ![t].log = Append(@, [h |-> k,
                             read |-> Deref(settings[frame[t].setting].Value)])]
    /\ UNCHANGED <<children, settingsMap, mem, pc, ret>>

\* a notifyChanged that does not call the parent's notifyChanged
RangeNextSkipsParent(t) ==
    /\ pc[t] = "Range"
    /\ LET n == Len(frame[t].stack)
           top == frame[t].stack[n]
       IN  /\ top.todo = {}
           /\ IF n > 1
              THEN /\ frame' = [frame EXCEPT ![t].stack = SubSeq(@, 1, n - 1)]
                   /\ UNCHANGED <<pc, ret>>
              ELSE Return(t, RangeRet(t))
    /\ UNCHANGED <<sets, children, settingsMap, settings, mem, handles, calls>>

\* a Range has visited all its keys: notifyChanged goes on with the parent Set,
\* or returns to the Range that called it, or the whole call returns
RangeNext(t) ==
    /\ pc[t] = "Range"
    /\ LET n == Len(frame[t].stack)
           top == frame[t].stack[n]
       IN  /\ top.todo = {}
           /\ IF top.coll = "set" /\ sets[top.id].parent # Nil
              THEN /\ frame' = [frame EXCEPT ![t].stack[n] =
                          RangeOver("set", sets[top.id].parent,
                                    sets[sets[top.id].parent].notifiers)]
                   /\ UNCHANGED <<pc, ret>>
              ELSE IF n > 1
                   THEN /\ frame' = [frame EXCEPT ![t].stack = SubSeq(@, 1, n - 1)]
                        /\ UNCHANGED <<pc, ret>>
                   ELSE Return(t, RangeRet(t))
    /\ UNCHANGED <<sets, children, settingsMap, settings, mem, handles, calls>>

(***************************************************************************)
(* Setting.Mask, Setting.String, Setting.Equals                           *)
(***************************************************************************)
\* the caller assigns the exported field Mask
SetMask(t, x, b) ==
    /\ pc[t] = "idle"
    /\ settings[x].Mask # b
    /\ settings' = [settings EXCEPT ![x].Mask = b]
    /\ Return(t, [NoRet EXCEPT !.op = "Mask", !.setting = x])
    /\ UNCHANGED calls
    /\ UNCHANGED <<sets, children, settingsMap, mem, handles>>

StringCall(t, x) ==
    /\ pc[t] = "idle"
    /\ Return(t, [NoRet EXCEPT !.op = "String", !.setting = x, !.str = String(x)])
    /\ UNCHANGED calls
    /\ UNCHANGED <<sets, children, settingsMap, settings, mem, handles>>

\* an Equals that keeps the value it parsed from the text
EqualsCallStores(t, x, text) ==
    /\ pc[t] = "idle"
    /\ Return(t, [NoRet EXCEPT !.op = "Equals", !.setting = x, !.text = text,
                               !.same = Equals(x, text)])
    /\ UNCHANGED calls
    /\ LET value == settings[x].Value
           pv == ParseAs(value.cell.type, text)
       IN  IF pv.err # ErrNil THEN UNCHANGED <<settings, mem>>
           ELSE IF value.ptr
                THEN mem' = [mem EXCEPT ![value.addr] = pv.cell] /\ UNCHANGED settings
                ELSE settings' = [settings EXCEPT ![x].Value.cell = pv.cell] /\ UNCHANGED mem
    /\ UNCHANGED <<sets, children, settingsMap, handles>>

EqualsCall(t, x, text) ==
    /\ pc[t] = "idle"
    /\ Return(t, [NoRet EXCEPT !.op = "Equals", !.setting = x, !.text = text,
                               !.same = Equals(x, text)])
    /\ UNCHANGED calls
    /\ UNCHANGED <<sets, children, settingsMap, settings, mem, handles>>

IsDefaultCall(t, x) ==
    /\ pc[t] = "idle"
    /\ Return(t, [NoRet EXCEPT !.op = "IsDefault", !.setting = x, !.same = IsDefault(x)])
    /\ UNCHANGED calls
    /\ UNCHANGED <<sets, children, settingsMap, settings, mem, handles>>

(***************************************************************************)
(* Set.Range                                                              *)
(***************************************************************************)
\* the Settings that Set.Range passes to a callback that always returns true
Range(s) ==
    {settingsMap[key] : key \in {k \in DOMAIN settingsMap : HasPrefix(k, sets[s].path)}}

RangeCall(t, s) ==
    /\ pc[t] = "idle"
    /\ UNCHANGED calls
    /\ Return(t, [NoRet EXCEPT !.op = "Range", !.set = s, !.visited = Range(s)])
    /\ UNCHANGED <<sets, children, settingsMap, settings, mem, handles>>

\* Set.Dump: the rows written after the header row, one for each Setting that
\* Range passes to the callback, with the Setting's Path and String
Dump(s) ==
    {[setting |-> x, path |-> settings[x].Path, value |-> String(x)] : x \in Range(s)}

DumpCall(t, s) ==
    /\ pc[t] = "idle"
    /\ UNCHANGED calls
    /\ Return(t, [NoRet EXCEPT !.op = "Dump", !.set = s, !.rows = Dump(s)])
    /\ UNCHANGED <<sets, children, settingsMap, settings, mem, handles>>

(***************************************************************************)
(* Specifications.  Spec: one thread makes the calls one after another,   *)
(* on a tree of subsets with subscribers.                                 *)
(***************************************************************************)
Main == {1}

\* the subsets form a chain a, a.a, ... with one sibling b of the first
SubsetNames(s) == IF s = TopSet THEN { <<"a">>, <<"b">> } ELSE { <<"a">> }
SettingNames == { <<"x">> }
QueryNames == { <<"x">>, <<"a",".","x">> }
SpecTexts == { <<"t","r","u","e">>, <<"0">> }
SpecValues == { Plain(BoolCell(FALSE)) }

Next ==
    \/ \E t \in Main, s \in SetIds : \E name \in SubsetNames(s) : SubsetLoad(t, s, name)
    \/ \E t \in Main : SubsetStore(t)
    \/ \E t \in Main, s \in SetIds :
            Len(handles) < TreeHandles /\ SetNotify(t, s, "user")
    \/ \E t \in Main, s \in SetIds, name \in SettingNames, value \in SpecValues :
            SettingRegister(t, s, name, value, TreeSettings)
    \/ \E t \in Main : SettingSubscribe(t)
    \/ \E t \in Main : SettingAnnounce(t)
    \/ \E t \in Main, x \in SettingIds, text \in SpecTexts : SetCall(t, x, text)
    \/ \E t \in Main, s \in SetIds, name \in QueryNames, text \in SpecTexts :
            RegistrySet(t, s, name, text)
    \/ \E t \in Main : SetEquals(t)
    \/ \E t \in Main : SetMutate(t)
    \/ \E t \in Main : SetDispatch(t)
    \/ \E t \in Main : Forget(t)

Spec == Init /\ [][Next]_vars

(***************************************************************************)
(* CodecSpec: one thread creates one Setting of each builtin type, plain   *)
(* or pointer, in the top-level Set, subscribes to it and to the Set,      *)
(* closes handles, and sets texts directly and through the registry.       *)
(***************************************************************************)
CodecNames == { <<"x">>, <<"X">>, <<"y">> }

CodecNext ==
    \/ \E t \in Main, value \in InitValues :
            SettingRegister(t, TopSet, <<"x">>, value, MaxSettings)
    \/ \E t \in Main : SettingSubscribe(t)
    \/ \E t \in Main : SettingAnnounce(t)
    \/ \E t \in Main : SetNotify(t, TopSet, "user")
    \/ \E t \in Main, x \in SettingIds : SettingNotify(t, x, "user")
    \/ \E t \in Main, h \in HandleIds : Close(t, h)
    \/ \E t \in Main, x \in SettingIds, text \in Texts : SetCall(t, x, text)
    \/ \E t \in Main, name \in CodecNames, text \in Texts :
            RegistrySet(t, TopSet, name, text)
    \/ \E t \in Main : SetEquals(t)
    \/ \E t \in Main : SetMutate(t)
    \/ \E t \in Main : SetDispatch(t)
    \/ \E t \in Main : Forget(t)

CodecSpec == Init /\ [][CodecNext]_vars

(***************************************************************************)
(* ValueSpec: one thread creates one Setting of each builtin type, plain   *)
(* or pointer, masks and unmasks it, subscribes to it or to its Set, sets  *)
(* texts, repeats a Set, and reads the Setting with String and Equals.     *)
(***************************************************************************)
ValueCells == { BoolCell(FALSE), IntCell("int8", 5), IntCell("uint8", 5), StrCell(<<"x">>),
                FloatCell(5, FALSE), FloatCell(0, TRUE), DurationCell(90) }
ValueValues == [nil : {FALSE}, ptr : BOOLEAN, addr : {0}, cell : ValueCells]
ValueTexts == { <<"t","r","u","e">>, <<"1">>, <<"5">>, <<"0","x","5">>, <<"2","0","0">>,
                <<"x">>, <<"N","a","N">>, <<"1","m">>, <<"6","0","s">> }

ValueNext ==
    \/ \E t \in Main, value \in ValueValues :
            SettingRegister(t, TopSet, <<"x">>, value, MaxSettings)
    \/ \E t \in Main : SettingSubscribe(t)
    \/ \E t \in Main : SettingAnnounce(t)
    \/ \E t \in Main, x \in SettingIds, b \in BOOLEAN : SetMask(t, x, b)
    \/ \E t \in Main : Len(handles) < TreeHandles /\ SetNotify(t, TopSet, "user")
    \/ \E t \in Main, x \in SettingIds :
            Len(handles) < TreeHandles /\ SettingNotify(t, x, "user")
    \/ \E t \in Main, x \in SettingIds, text \in ValueTexts : SetCall(t, x, text)
    \/ \E t \in Main : SetAgain(t)
    \/ \E t \in Main : SetEquals(t)
    \/ \E t \in Main : SetMutate(t)
    \/ \E t \in Main : SetDispatch(t)
    \/ \E t \in Main, x \in SettingIds : StringCall(t, x)
    \/ \E t \in Main, x \in SettingIds, text \in ValueTexts : EqualsCall(t, x, text)
    \/ \E t \in Main : Forget(t)

ValueSpec == Init /\ [][ValueNext]_vars

(***************************************************************************)
(* NotifySpec: one thread subscribes to the top-level Set and to a Setting *)
(* with real and nil Notifiers, makes zero-value handles, closes handles   *)
(* any number of times, and creates and changes the Setting.               *)
(***************************************************************************)
NotifierKinds == {"user", "nil"}
NotifyNames == { <<"x">>, <<"y">> }

NotifyNext ==
    \/ \E t \in Main, name \in NotifyNames :
            SettingRegister(t, TopSet, name, Plain(BoolCell(FALSE)), MaxSettings)
    \/ \E t \in Main : SettingSubscribe(t)
    \/ \E t \in Main : SettingAnnounce(t)
    \/ \E t \in Main, n \in NotifierKinds : SetNotify(t, TopSet, n)
    \/ \E t \in Main, x \in SettingIds, n \in NotifierKinds : SettingNotify(t, x, n)
    \/ \E t \in Main : ZeroHandle(t)
    \/ \E t \in Main, h \in HandleIds : Close(t, h)
    \/ \E t \in Main, x \in SettingIds, text \in SpecTexts : SetCall(t, x, text)
    \/ \E t \in Main : SetEquals(t)
    \/ \E t \in Main : SetMutate(t)
    \/ \E t \in Main : SetDispatch(t)
    \/ \E t \in Main : Forget(t)

NotifySpec == Init /\ [][NotifyNext]_vars

(***************************************************************************)
(* ReentrySpec: one thread creates a Setting in a subset of the top-level  *)
(* Set, subscribes Notifiers that record the call, close their own         *)
(* handle or register one more subscriber, and changes the Setting; the    *)
(* dispatch runs key by key.  The dispatch is the caller's own loop, so it *)
(* goes on until it ends.                                                  *)
(***************************************************************************)
ReentryKinds == {"user", "closer", "subscriber"}

RangeSteps ==
    \E t \in Main :
        \/ RangeOwner(t)
        \/ \E k \in HandleIds : RangeNotify(t, k)
        \/ RangeNext(t)

ReentryNext ==
    \/ \E t \in Main : SubsetLoad(t, TopSet, <<"a">>)
    \/ \E t \in Main : SubsetStore(t)
    \/ \E t \in Main, s \in SetIds \ {TopSet} :
            SettingRegister(t, s, <<"x">>, Plain(BoolCell(FALSE)), TreeSettings)
    \/ \E t \in Main : SettingSubscribe(t)
    \/ \E t \in Main, s \in SetIds, n \in ReentryKinds : SetNotify(t, s, n)
    \/ \E t \in Main, x \in SettingIds, n \in ReentryKinds : SettingNotify(t, x, n)
    \/ \E t \in Main, x \in SettingIds, text \in SpecTexts : SetCall(t, x, text)
    \/ \E t \in Main : SetEquals(t)
    \/ \E t \in Main : SetMutate(t)
    \/ \E t \in Main : RangeBegin(t)
    \/ RangeSteps
    \/ \E t \in Main : Forget(t)

ReentrySpec == Init /\ [][ReentryNext]_vars /\ WF_vars(RangeSteps)

(***************************************************************************)
(* CustomSpec: one thread creates a Setting whose value is of a type of    *)
(* the caller's, subscribes to it, sets texts and reads it.                *)
(***************************************************************************)
CustomValues ==
    { [nil |-> FALSE, ptr |-> TRUE, addr |-> 0, cell |-> CustomCell("custom", <<"h">>)],
      [nil |-> FALSE, ptr |-> TRUE, addr |-> 0, cell |-> CustomCell("strict", <<"h">>)],
      Plain(CustomCell("opaque", <<"{","}">>)) }
CustomTexts == { <<"h">>, <<"x">>, <<"{","}">> }

CustomNext ==
    \/ \E t \in Main, value \in CustomValues :
            SettingRegister(t, TopSet, <<"x">>, value, MaxSettings)
    \/ \E t \in Main : SettingSubscribe(t)
    \/ \E t \in Main : SettingAnnounce(t)
    \/ \E t \in Main, x \in SettingIds : SettingNotify(t, x, "user")
    \/ \E t \in Main, h \in HandleIds : Close(t, h)
    \/ \E t \in Main, x \in SettingIds, text \in CustomTexts : SetCall(t, x, text)
    \/ \E t \in Main : SetEquals(t)
    \/ \E t \in Main : SetMutate(t)
    \/ \E t \in Main : SetDispatch(t)
    \/ \E t \in Main, x \in SettingIds : StringCall(t, x)
    \/ \E t \in Main, x \in SettingIds, text \in CustomTexts : EqualsCall(t, x, text)
    \/ \E t \in Main : Forget(t)

CustomSpec == Init /\ [][CustomNext]_vars

(***************************************************************************)
(* RaceSpec: the threads call Setting.Set on one Setting concurrently.     *)
(***************************************************************************)
RaceValues ==
    { [nil |-> FALSE, ptr |-> TRUE, addr |-> 0, cell |-> StrCell(<<"x">>)],
      [nil |-> FALSE, ptr |-> TRUE, addr |-> 0, cell |-> IntCell("int8", 5)],
      Plain(StrCell(<<"x">>)) }
RaceTexts == { <<"t","r","u","e">>, <<"x">>, <<"7">> }

\* the two threads whose calls of Setting.Set overlap
Racers == {1, 2}

RaceNext ==
    \/ \E t \in Main, value \in RaceValues :
            SettingRegister(t, TopSet, <<"x">>, value, TreeSettings)
    \/ \E t \in Main : SettingSubscribe(t)
    \/ \E t \in Main : SettingAnnounce(t)
    \/ \E t \in Racers, x \in SettingIds, text \in RaceTexts : SetCall(t, x, text)
    \/ \E t \in Racers : SetEquals(t)
    \/ \E t \in Racers : SetMutate(t)
    \/ \E t, u \in Racers : SetMutateRace(t, u)
    \/ \E t \in Racers : SetDispatch(t)
    \/ \E t \in Racers : Forget(t)

RaceSpec == Init /\ [][RaceNext]_vars

(***************************************************************************)
(* RegistrySpec: one thread binds structures, creates Sets and Settings,   *)
(* subscribes, sets values and reads.                                      *)
(***************************************************************************)
BindArgs == {"inner", "outer", "broken", "scalar"}
RegistryValues == { Plain(StrCell(<<"x">>)) }
RegistryTexts == { <<"x">>, <<"7">> }
RegistryQueries == { <<"n">>, <<"H",".","P">> }

RegistryNext ==
    \/ \E t \in Main : SubsetLoad(t, TopSet, <<"H">>)
    \/ \E t \in Main : SubsetStore(t)
    \/ \E t \in Main, value \in RegistryValues :
            SettingRegister(t, TopSet, <<"n">>, value, MaxSettings)
    \/ \E t \in Main : SettingSubscribe(t)
    \/ \E t \in Main : SettingAnnounce(t)
    \/ \E t \in Main, s \in SetIds, arg \in BindArgs : BindCall(t, s, arg)
    \/ \E t \in Main : BindField(t)
    \/ \E t \in Main :
            Len(handles) < TreeHandles /\ SetNotify(t, TopSet, "user")
    \/ \E t \in Main, x \in SettingIds :
            Len(handles) < TreeHandles /\ SettingNotify(t, x, "user")
    \/ \E t \in Main, h \in HandleIds : Close(t, h)
    \/ \E t \in Main, x \in SettingIds, text \in RegistryTexts : SetCall(t, x, text)
    \/ \E t \in Main : SetEquals(t)
    \/ \E t \in Main : SetMutate(t)
    \/ \E t \in Main : SetDispatch(t)
    \/ \E t \in Main, s \in SetIds, name \in RegistryQueries : GetCall(t, s, name)
    \/ \E t \in Main, s \in SetIds : RangeCall(t, s)
    \/ \E t \in Main, x \in SettingIds, text \in RegistryTexts : EqualsCall(t, x, text)
    \/ \E t \in Main, x \in SettingIds : StringCall(t, x)
    \/ \E t \in Main, x \in SettingIds : IsDefaultCall(t, x)
    \/ \E t \in Main : Forget(t)

RegistrySpec == Init /\ [][RegistryNext]_vars

(***************************************************************************)
(* PathSpec: one thread makes subsets whose paths begin alike ("a", "ab")  *)
(* or that are reached with a dotted name ("a.b" from the top-level Set),  *)
(* creates Settings in them, subscribes to the Sets, sets values and       *)
(* ranges.                                                                 *)
(***************************************************************************)
PathSubsetNames(s) ==
    IF s = TopSet THEN { <<"a">>, <<"a","b">>, <<"a",".","b">> } ELSE { <<"b">> }

PathNext ==
    \/ \E t \in Main, s \in SetIds : \E name \in PathSubsetNames(s) :
            SubsetLoad(t, s, name)
    \/ \E t \in Main : SubsetStore(t)
    \/ \E t \in Main, s \in SetIds \ {TopSet}, value \in SpecValues :
            SettingRegister(t, s, <<"x">>, value, TreeSettings)
    \/ \E t \in Main : SettingSubscribe(t)
    \/ \E t \in Main : SettingAnnounce(t)
    \/ \E t \in Main, s \in SetIds \ {TopSet} :
            Len(handles) < TreeHandles /\ SetNotify(t, s, "user")
    \/ \E t \in Main, x \in SettingIds, text \in SpecTexts : SetCall(t, x, text)
    \/ \E t \in Main : SetEquals(t)
    \/ \E t \in Main : SetMutate(t)
    \/ \E t \in Main : SetDispatch(t)
    \/ \E t \in Main, s \in SetIds : RangeCall(t, s)
    \/ \E t \in Main : Forget(t)

PathSpec == Init /\ [][PathNext]_vars

(***************************************************************************)
(* VisibleSpec: one thread subscribes to the top-level Set and then        *)
(* creates a Setting in it, while the threads call the registry's Set.Set  *)
(* with the Setting's path.                                                *)
(***************************************************************************)
VisibleNext ==
    \/ \E t \in Main :
            Len(settings) = 0 /\ Len(handles) < TreeHandles /\ SetNotify(t, TopSet, "user")
    \/ \E t \in Main, value \in SpecValues :
            SettingRegister(t, TopSet, <<"x">>, value, TreeSettings)
    \/ \E t \in Main : SettingSubscribe(t)
    \/ \E t \in Main : SettingAnnounce(t)
    \/ \E t \in Threads, text \in SpecTexts : RegistrySet(t, TopSet, <<"x">>, text)
    \/ \E t \in Threads : SetEquals(t)
    \/ \E t \in Threads : SetMutate(t)
    \/ \E t \in Threads : SetDispatch(t)
    \/ \E t \in Threads : Forget(t)

VisibleSpec == Init /\ [][VisibleNext]_vars

(***************************************************************************)
(* LookupSpec: one thread builds subsets and Settings whose names differ   *)
(* in case, subscribes to the Sets, and looks Settings up with Get and     *)
(* Range.  Set.Setting is also called with an empty name and a nil value.  *)
(***************************************************************************)
LookupSubsetNames(s) == IF s = TopSet THEN { <<"a">>, <<"A">> } ELSE { <<"b">> }
LookupSettingNames == { <<"x">>, <<>> }
LookupValues == { Plain(BoolCell(FALSE)), NilValue }
LookupQueries == { <<"x">>, <<"A",".","x">>, <<"B",".","x">> }

LookupNext ==
    \/ \E t \in Main, s \in SetIds : \E name \in LookupSubsetNames(s) :
            SubsetLoad(t, s, name)
    \/ \E t \in Main : SubsetStore(t)
    \/ \E t \in Main, s \in SetIds, name \in LookupSettingNames, value \in LookupValues :
            SettingRegister(t, s, name, value, MaxSettings)
    \/ \E t \in Main : SettingSubscribe(t)
    \/ \E t \in Main : SettingAnnounce(t)
    \/ \E t \in Main, s \in SetIds :
            Len(handles) < TreeHandles /\ SetNotify(t, s, "user")
    \/ \E t \in Main, s \in SetIds, name \in LookupQueries : GetCall(t, s, name)
    \/ \E t \in Main, s \in SetIds : RangeCall(t, s)
    \/ \E t \in Main, s \in SetIds : DumpCall(t, s)
    \/ \E t \in Main : Forget(t)

LookupSpec == Init /\ [][LookupNext]_vars

(***************************************************************************)
(* ConcSpec: the threads call Subset and Setting concurrently, with names  *)
(* that resolve to the same paths.                                         *)
(***************************************************************************)
ConcSubsetNames == { <<"a">>, <<"A">> }
ConcSettingNames(s) ==
    IF s = TopSet THEN { <<"a",".","x">>, <<"A",".","X">> } ELSE { <<"x">> }

ConcNext ==
    \/ \E t \in Threads, name \in ConcSubsetNames : SubsetLoad(t, TopSet, name)
    \/ \E t \in Threads : SubsetStore(t)
    \/ \E t \in Threads, s \in SetIds, value \in SpecValues :
            \E name \in ConcSettingNames(s) :
                SettingRegister(t, s, name, value, MaxSettings)
    \/ \E t \in Threads : SettingSubscribe(t)
    \/ \E t \in Threads : SettingAnnounce(t)
    \/ \E t \in Threads : Forget(t)

ConcSpec == Init /\ [][ConcNext]_vars

(***************************************************************************)
(* Properties.                                                            *)
(***************************************************************************)
\* Set s and the Sets of its parent chain, up to the top-level Set
RECURSIVE UpSets(_)
UpSets(s) == {s} \cup (IF sets[s].parent = Nil THEN {} ELSE UpSets(sets[s].parent))

\* the handles subscribed on Set s
SubscribedOn(s) == {h \in HandleIds : handles[h].coll = "set" /\ handles[h].id = s
                                      /\ h \in sets[s].notifiers}

\* thread t has completed a Setting.Set, direct or through Set.Set, without error
SetDone(t) ==
    /\ pc[t] = "done"
    /\ ret[t].op \in {"SettingSet", "RegistrySet"}
    /\ ret[t].setting # Nil
    /\ ret[t].err = NoErr

\* the number of subsets between Set s and the top-level Set
Depth(s) == Cardinality(UpSets(s)) - 1

\* C3: when a successful Set changes the value of a setting created through
\* Set T, every subscriber of T and of each Set of T's parent chain up to the
\* top-level Set is invoked exactly once, with that setting
C3_ChangePropagatesUp ==
    \A t \in Threads :
        SetDone(t) /\ ~ret[t].same =>
            \A u \in UpSets(settings[ret[t].setting].via) :
                \A h \in SubscribedOn(u) : calls[t][h] = <<ret[t].setting>>

\* C3: a subscriber of the top-level Set has been invoked once for the change
\* of a setting that is nested three subsets deep
C3_Witness ==
    \E t \in Threads :
        /\ SetDone(t) /\ ~ret[t].same
        /\ Depth(settings[ret[t].setting].via) = 3
        /\ \E h \in SubscribedOn(TopSet) : calls[t][h] = <<ret[t].setting>>

\* C4: a subscriber of Set S is not invoked for the creation or the change of
\* a setting created through a Set that is neither S nor a descendant of S
C4_NoForeignNotification ==
    \A t \in Threads :
        pc[t] = "done" /\ ret[t].op \in {"Setting", "SettingSet", "RegistrySet"}
                       /\ ret[t].setting # Nil =>
            \A u \in SetIds \ UpSets(settings[ret[t].setting].via) :
                \A h \in SubscribedOn(u) : calls[t][h] = <<>>

\* C4: a setting of subset a has changed while a sibling subset has a subscriber
C4_Witness ==
    \E t \in Threads :
        /\ SetDone(t) /\ ~ret[t].same
        /\ \E u \in SetIds \ UpSets(settings[ret[t].setting].via) :
              /\ sets[u].parent = TopSet
              /\ sets[settings[ret[t].setting].via].parent = TopSet
              /\ SubscribedOn(u) # {}

\* thread t has completed a Setting.Set, direct or through Set.Set, with an error
SetFailed(t) ==
    /\ pc[t] = "done"
    /\ ret[t].op \in {"SettingSet", "RegistrySet"}
    /\ ret[t].setting # Nil
    /\ ret[t].err # NoErr

\* the handles of Setting x's subscriptions, closed or not
HandlesOf(x) == {h \in HandleIds : handles[h].coll = "setting" /\ handles[h].id = x}

\* the handles of Setting x's subscriptions that have not been closed
LiveOn(x) == {h \in HandlesOf(x) : ~handles[h].closed}

\* C1: a Setting.Set that succeeds invokes every subscriber of the Setting that
\* is not closed exactly once if Equals of the text was false when the call was
\* entered; it invokes no subscriber at all if Equals was true, and never a
\* closed one
C1_NotifiesIffChanged ==
    \A t \in Threads :
        SetDone(t) =>
            LET x == ret[t].setting
                same == EqualsCell(ret[t].before, ret[t].text)
            IN  /\ same => calls[t] = NoCalls
                /\ ~same => \A h \in LiveOn(x) : calls[t][h] = <<x>>
                /\ \A h \in HandlesOf(x) \ LiveOn(x) : calls[t][h] = <<>>

\* C1: Set("true") on a boolean Setting holding false has invoked an open
\* subscriber once and has not invoked a closed one
C1_Witness ==
    \E t \in Threads :
        /\ SetDone(t)
        /\ ret[t].before = BoolCell(FALSE)
        /\ ret[t].text = <<"t","r","u","e">>
        /\ \E h \in LiveOn(ret[t].setting) : calls[t][h] = <<ret[t].setting>>
        /\ \E h \in HandlesOf(ret[t].setting) : handles[h].closed

\* C2: when Setting.Set returns an error, the Setting's value (the variable it
\* points to, for a pointer) is what it was when the call was entered, and no
\* subscriber of the Setting or of a Set has been invoked
C2_ErrorLeavesValue ==
    \A t \in Threads :
        SetFailed(t) =>
            /\ Deref(settings[ret[t].setting].Value) = ret[t].before
            /\ calls[t] = NoCalls

\* C2: a text outside the bit width has been refused by a Setting that points
\* to a variable, while the Setting and its Set each have an open subscriber
C2_Witness ==
    \E t \in Threads :
        /\ SetFailed(t)
        /\ ret[t].err.cause = ErrRange
        /\ settings[ret[t].setting].Value.ptr
        /\ LiveOn(ret[t].setting) # {}
        /\ SubscribedOn(TopSet) # {}

\* what Setting.Set(text) does to a Setting x that holds the value before: the
\* error it returns, the value it leaves and the Notifiers it invokes
SetOutcome(x, before, text) ==
    LET pv == ParseAs(before.type, text)
    IN  [err |-> IF pv.err = ErrNil THEN NoErr ELSE CastErr(before.type, pv.err),
         cell |-> IF pv.err = ErrNil THEN pv.cell ELSE before,
         calls |-> IF pv.err # ErrNil \/ EqualsCell(before, text)
                   THEN NoCalls ELSE Dispatch(x)]

\* the result of a completed Set.Set or Setting.Set is that of Setting.Set on
\* the resolved Setting, and Set.Set returns true exactly when it resolved one
C10_Delegates ==
    \A t \in Threads :
        pc[t] = "done" /\ ret[t].op \in {"SettingSet", "RegistrySet"} =>
            IF ret[t].setting = Nil
            THEN ~ret[t].found /\ ret[t].err = NoErr /\ calls[t] = NoCalls
            ELSE LET x == ret[t].setting
                     out == SetOutcome(x, ret[t].before, ret[t].text)
                 IN  /\ ret[t].found = (ret[t].op = "RegistrySet")
                     /\ ret[t].err = out.err
                     /\ Deref(settings[x].Value) = out.cell
                     /\ calls[t] = out.calls

\* a call of Set.Set(name, text) on Set s returns at once and changes nothing
\* when Get(name) finds nothing, and otherwise enters Setting.Set(text) on the
\* Setting that Get(name) finds
C10_Resolves ==
    \A t \in Threads, s \in SetIds, name \in CodecNames, text \in Texts :
        RegistrySet(t, s, name, text) =>
            IF Get(s, name) = Nil
            THEN /\ pc'[t] = "done" /\ ret'[t].setting = Nil
                 /\ UNCHANGED <<sets, settings, mem, calls>>
            ELSE /\ pc'[t] = "SetEquals"
                 /\ frame'[t].setting = Get(s, name) /\ frame'[t].text = text
                 /\ UNCHANGED <<sets, settings, mem, calls>>

\* C10: the registry's Set.Set(name, text) returns (false, nil), changes no
\* setting and invokes no subscriber when Get(name) finds nothing; otherwise it
\* returns true with exactly the error of the resolved Setting's Set(text), and
\* has the effect on the value and the notifications of that direct call
C10_RegistrySet == []C10_Delegates /\ [][C10_Resolves]_vars

\* C10: Set.Set has resolved a Setting that has an open subscriber and has
\* returned true with the error of the Setting's Set
C10_Witness ==
    \E t \in Threads :
        /\ SetFailed(t)
        /\ ret[t].op = "RegistrySet"
        /\ ret[t].found
        /\ ret[t].err = CastErr("bool", ErrSyntax)
        /\ LiveOn(ret[t].setting) # {}

\* the Settings registered under path p, compared without case
Registered(p) == {x \in SettingIds : ToLower(settings[x].Path) = ToLower(p)}

\* the Sets other than the top-level Set whose path is p, compared without case
Instances(p) == {u \in SetIds \ {TopSet} : ToLower(sets[u].path) = ToLower(p)}

\* the object of a set of objects that was created first
First(S) == CHOOSE x \in S : \A y \in S : x <= y

\* thread t has completed the call op
Done(t, op) == pc[t] = "done" /\ ret[t].op = op

\* no two Settings are registered under one path; Get returns each registered
\* Setting for its path; a completed Set.Setting has either panicked, and the
\* path belongs to another Setting, or returned the only Setting of the path
C5_OneOwner ==
    /\ \A x \in SettingIds : Registered(settings[x].Path) = {x}
    /\ \A x \in SettingIds : Get(TopSet, settings[x].Path) = x
    /\ \A t \in Threads :
          Done(t, "Setting") =>
              LET owners == Registered(ChildPath(ret[t].set, ret[t].name))
              IN  IF ret[t].panicked
                  THEN ret[t].obj = Nil /\ owners # {}
                  ELSE owners = {ret[t].obj}

\* a call of Set.Setting panics at once exactly when its path is registered
\* already, and what Get returns for a registered path never changes
C5_PanicsOnDuplicate ==
    /\ \A t \in Threads :
          pc[t] = "idle" /\ pc'[t] = "done" /\ ret'[t].op = "Setting" =>
              /\ ret'[t].panicked
              /\ Registered(ChildPath(ret'[t].set, ret'[t].name)) # {}
              /\ UNCHANGED <<settings, settingsMap>>
    /\ \A t \in Threads :
          pc[t] = "idle" /\ pc'[t] = "SettingSubscribe" =>
              Registered(ChildPath(frame'[t].set, frame'[t].name)) = {}
    /\ \A x \in SettingIds : Get(TopSet, settings[x].Path)' = Get(TopSet, settings[x].Path)

\* C5: Set.Setting panics whenever the lowercased full path of the new setting
\* is that of a setting registered under the same root, through whichever Set;
\* under any interleaving exactly one of such calls succeeds, and the setting
\* registered first stays the one that Get returns for the path
C5_DuplicatePath == []C5_OneOwner /\ [][C5_PanicsOnDuplicate]_vars

\* C5: of two concurrent calls through different Sets for one path, written in
\* different case, one has returned the Setting and the other has panicked
C5_Witness ==
    \E t, u \in Threads :
        /\ Done(t, "Setting") /\ ~ret[t].panicked
        /\ Done(u, "Setting") /\ ret[u].panicked
        /\ ret[t].set # ret[u].set
        /\ ret[u].name = <<"A",".","X">>
        /\ Get(TopSet, ret[u].name) = ret[t].obj

\* C6: under any interleaving of Subset calls that resolve to one path, there
\* is a single child Set for the path, the child map holds it, and every call
\* returns it
C6_SingleChild ==
    /\ \A u \in SetIds \ {TopSet} : Instances(sets[u].path) = {u}
    /\ \A t \in Threads :
          Done(t, "Subset") =>
              children[ToLower(ChildPath(ret[t].set, ret[t].name))] = ret[t].obj

\* C7: a Subset call made after the calls before it have returned gives the one
\* child Set of the path, which is the child the first call created; the child
\* map has one entry for the path; the child's Parent() is the Set it was
\* created from and its Root() is the top-level Set
C7_SubsetIdempotent ==
    \A t \in Threads :
        Done(t, "Subset") =>
            LET path == ChildPath(ret[t].set, ret[t].name)
                child == ret[t].obj
            IN  /\ Instances(path) = {child}
                /\ {k \in DOMAIN children : ToLower(k) = ToLower(path)} = {ToLower(path)}
                /\ children[ToLower(path)] = child
                /\ Parent(child) = ret[t].set
                /\ sets[child].path = ChildPath(Parent(child), sets[child].name)
                /\ Root(child) = TopSet

\* C7: a second Subset call has found the child of a subset, whose Parent() is
\* not its Root()
C7_Witness ==
    \E t \in Threads :
        /\ Done(t, "Subset") /\ ret[t].found
        /\ Parent(ret[t].obj) # TopSet
        /\ Root(ret[t].obj) = TopSet

\* C8: Range on Set S passes to the callback every registered setting whose
\* path has the path of S as a prefix, which includes every setting created
\* through S or through a subset reached from S, whatever the names
C8_RangeVisitsSubtree ==
    \A t \in Threads :
        Done(t, "Range") =>
            \A x \in SettingIds :
                \/ HasPrefix(settings[x].Path, sets[ret[t].set].path)
                \/ ret[t].set \in UpSets(settings[x].via)
                => x \in ret[t].visited

\* what Get(name) on Set s is to return: the Setting registered under name, else
\* the one registered under the path of s, a dot and name, else nothing
Lookup(s, name) ==
    IF Registered(name) # {} THEN First(Registered(name))
    ELSE IF Registered(DotJoin(sets[s].path, name)) # {}
         THEN First(Registered(DotJoin(sets[s].path, name)))
         ELSE Nil

\* C9: Get(name) returns the setting registered under name as a full path if
\* there is one, otherwise the one registered under the Set's path + "." + name,
\* both compared without case, and nil, with no panic, when there is neither
C9_GetResolves ==
    \A t \in Threads :
        Done(t, "Get") =>
            /\ ret[t].obj = Lookup(ret[t].set, ret[t].name)
            /\ ~ret[t].panicked /\ ret[t].err = NoErr

\* C9: Get has found a setting under the Set's path and a name written in
\* another case, there being none under the name as a full path
C9_Witness ==
    \E t \in Threads :
        /\ Done(t, "Get")
        /\ ret[t].name = <<"B",".","x">>
        /\ Registered(ret[t].name) = {}
        /\ ret[t].obj # Nil

\* C11: a Set.Setting call that succeeds has invoked, when it returns, every
\* subscriber of the owning Set and of each Set of its parent chain exactly
\* once with the new setting; a call that panics (empty name, nil value,
\* duplicate path) has invoked no subscriber
C11_CreationAnnounced ==
    \A t \in Threads :
        Done(t, "Setting") =>
            IF ret[t].panicked
            THEN calls[t] = NoCalls
            ELSE \A u \in UpSets(ret[t].set) :
                     \A h \in SubscribedOn(u) : calls[t][h] = <<ret[t].obj>>

\* C11: the creation of a setting in the subset of a subset has been announced
\* once to a subscriber of the top-level Set
C11_Witness ==
    \E t \in Threads :
        /\ Done(t, "Setting") /\ ~ret[t].panicked
        /\ Depth(ret[t].set) = 2
        /\ \E h \in SubscribedOn(TopSet) : calls[t][h] = <<ret[t].obj>>

(***************************************************************************)
(* Values, texts and masking (ValueSpec)                                   *)
(***************************************************************************)
\* a Setting.Set made directly on a Setting has returned, with or without error
SetReturned(t) == pc[t] = "done" /\ ret[t].op = "SettingSet"

\* C12: when a Setting.Set is repeated with the same text on the same Setting,
\* nothing else being written in between, the second call invokes no
\* subscriber of the Setting, of its Set or of an ancestor, and the value after
\* it is the value it found
C12_RepeatIsSilent ==
    \A t \in Threads :
        SetReturned(t) /\ ret[t].again =>
            /\ calls[t] = NoCalls
            /\ Deref(settings[ret[t].setting].Value) = ret[t].before

\* the types of C13: string, bool, the integers and duration, not the floats
ExactTypes == {"string", "bool", "int8", "uint8", "duration"}

\* C13: after a Setting.Set of a text has returned nil on a Setting of type
\* string, bool, integer or duration, plain or pointer, Equals of that text is
\* true
C13_SetThenEquals ==
    \A t \in Threads :
        SetDone(t) /\ Deref(settings[ret[t].setting].Value).type \in ExactTypes =>
            Equals(ret[t].setting, ret[t].text)

\* C13: a pointer duration Setting was set to "1m", which changed it
C13_Witness ==
    \E t \in Threads :
        /\ SetDone(t) /\ ~ret[t].same
        /\ ret[t].text = <<"1","m">>
        /\ settings[ret[t].setting].Value.ptr
        /\ Deref(settings[ret[t].setting].Value) = DurationCell(60)
        /\ Equals(ret[t].setting, ret[t].text)

\* C14: after a Setting.Set has returned nil on an unmasked Setting, String is
\* not empty unless the type is string, Equals of String is true, and a Set of
\* String would return nil, keep the value and invoke no subscriber
C14_StringRoundTrip ==
    \A t \in Threads :
        SetDone(t) /\ ~settings[ret[t].setting].Mask =>
            LET x == ret[t].setting
                cell == Deref(settings[x].Value)
                str == String(x)
            IN  /\ cell.type # "string" => str # <<>>
                /\ Equals(x, str)
                /\ SetOutcome(x, cell, str) =
                        [err |-> NoErr, cell |-> cell, calls |-> NoCalls]

\* C15: in every state a masked Setting's String is "*****", and a String call
\* on a masked Setting has returned "*****"
C15_MaskedString ==
    /\ \A x \in SettingIds : settings[x].Mask => String(x) = MaskText
    /\ \A t \in Threads :
            Done(t, "String") /\ settings[ret[t].setting].Mask => ret[t].str = MaskText

\* C15: String was called on a masked Setting whose value a successful Set
\* had changed to 200
C15_Witness ==
    \E t \in Threads :
        /\ Done(t, "String") /\ ret[t].str = MaskText
        /\ settings[ret[t].setting].Mask
        /\ Deref(settings[ret[t].setting].Value) = IntCell("uint8", 200)

\* C16: whether the Setting is masked or not, a completed Setting.Set has the
\* error, the value and the notifications that the value before the call and
\* the text determine, and a completed Equals has the result that the value
\* and the text determine; String alone depends on Mask
C16_MaskDisplayOnly ==
    \A t \in Threads :
        /\ SetReturned(t) =>
              LET x == ret[t].setting
                  out == SetOutcome(x, ret[t].before, ret[t].text)
              IN  /\ ret[t].err = out.err
                  /\ Deref(settings[x].Value) = out.cell
                  /\ calls[t] = out.calls
        /\ Done(t, "Equals") =>
              ret[t].same = EqualsCell(Deref(settings[ret[t].setting].Value), ret[t].text)
        /\ Done(t, "String") =>
              ret[t].str = IF settings[ret[t].setting].Mask THEN MaskText
                           ELSE FormatCell(Deref(settings[ret[t].setting].Value))

\* C16: a Set has changed a masked Setting's value and its subscriber was
\* invoked, while String hides the value
C16_Witness ==
    \E t \in Threads :
        /\ SetDone(t) /\ ~ret[t].same
        /\ settings[ret[t].setting].Mask
        /\ \E h \in LiveOn(ret[t].setting) : calls[t][h] = <<ret[t].setting>>
        /\ String(ret[t].setting) = MaskText
        /\ FormatCell(Deref(settings[ret[t].setting].Value)) # MaskText

\* after a successful Set the value read through the Setting is the parsed
\* text in both forms, so String and Equals agree between the forms, and the
\* error and the notifications are those the value and the text determine
C17_SameResults ==
    \A t \in Threads :
        SetReturned(t) =>
            LET x == ret[t].setting
                value == settings[x].Value
                pv == ParseAs(ret[t].before.type, ret[t].text)
                out == SetOutcome(x, ret[t].before, ret[t].text)
            IN  /\ ret[t].err = out.err /\ calls[t] = out.calls
                /\ ret[t].err = NoErr =>
                      /\ IF value.ptr THEN mem[value.addr] = pv.cell
                                      ELSE value.cell = pv.cell
                      /\ FormatCell(Deref(settings[x].Value)) = FormatCell(pv.cell)
                      /\ \A text \in ValueTexts :
                             Equals(x, text) = EqualsCell(pv.cell, text)

\* the type switch of Setting.Set leaves a pointer Value the same pointer and
\* writes the parsed value to the storage behind it; it replaces the value in
\* the slot of a plain Value and writes to no storage
C17_Storage ==
    \A t \in Threads :
        pc[t] = "SetMutate" /\ pc'[t] # "SetMutate" =>
            LET x == frame[t].setting
                value == settings[x].Value
                pv == ParseAs(value.cell.type, frame[t].text)
            IN  IF value.ptr
                THEN /\ settings'[x].Value = value
                     /\ mem' = IF pv.err = ErrNil
                               THEN [mem EXCEPT ![value.addr] = pv.cell] ELSE mem
                ELSE /\ mem' = mem
                     /\ settings'[x].Value.cell =
                            IF pv.err = ErrNil THEN pv.cell ELSE value.cell

\* C17: the pointer form and the plain form of a Setting give the same error,
\* String, Equals and notifications for the same value and text; the pointer
\* form keeps its pointer and stores the parsed value behind it, the plain
\* form replaces the value in its Value slot
C17_PointerAndPlain == []C17_SameResults /\ [][C17_Storage]_vars

\* C17: a Set has changed a pointer Setting, whose storage holds the new value
\* while the Value slot is as it was created
C17_Witness ==
    \E t \in Threads :
        /\ SetDone(t) /\ ~ret[t].same
        /\ settings[ret[t].setting].Value.ptr
        /\ mem[settings[ret[t].setting].Value.addr] = IntCell("int8", 1)
        /\ settings[ret[t].setting].Value.cell = IntCell("int8", 5)

(***************************************************************************)
(* Handles (NotifySpec)                                                    *)
(***************************************************************************)
\* the collection that issued handle h holds its subscription
Subscribed(h) ==
    \/ handles[h].coll = "set" /\ h \in sets[handles[h].id].notifiers
    \/ handles[h].coll = "setting" /\ h \in settings[handles[h].id].notifiers

\* a subscription is in the collection that issued its handle and in no other,
\* from Notify until the handle is closed
C18_OneSubscription ==
    /\ \A h \in HandleIds :
            Subscribed(h) <=> handles[h].coll \in {"set", "setting"} /\ ~handles[h].closed
    /\ \A s \in SetIds : \A h \in sets[s].notifiers :
            handles[h].coll = "set" /\ handles[h].id = s
    /\ \A x \in SettingIds : \A h \in settings[x].notifiers :
            handles[h].coll = "setting" /\ handles[h].id = x

\* a Close of handle h takes h out of the collection that issued it and leaves
\* every other subscription, of that and of every other collection, in place;
\* on a closed handle, a zero-value handle or the handle of Notify(nil) it
\* changes no collection; it returns nil
C18_CloseStep ==
    \A t \in Threads :
        pc[t] = "idle" /\ pc'[t] = "done" /\ ret'[t].op = "Close" =>
            LET h == ret'[t].obj
            IN  /\ ret'[t].err = NoErr /\ ~ret'[t].panicked
                /\ \A s \in SetIds : sets'[s].notifiers = sets[s].notifiers \ {h}
                /\ \A x \in SettingIds :
                       /\ settings'[x].notifiers = settings[x].notifiers \ {h}
                       /\ settings'[x].owner = settings[x].owner
                /\ handles[h].closed \/ handles[h].coll = "none" =>
                       UNCHANGED <<sets, settings>>

\* C18: NotifyHandle.Close removes the one subscription the handle was issued
\* for from the collection that issued it and leaves the others; Close on a
\* closed handle, on a zero-value handle or on the handle of Notify(nil)
\* changes nothing and returns nil
C18_CloseRemovesOne == []C18_OneSubscription /\ [][C18_CloseStep]_vars

\* C18: one of two subscriptions of the top-level Set was closed and the other
\* is still there
C18_Witness ==
    \E t \in Threads :
        /\ Done(t, "Close")
        /\ handles[ret[t].obj].coll = "set"
        /\ ret[t].obj \notin sets[TopSet].notifiers
        /\ sets[TopSet].notifiers # {}

\* C19: a change or a creation that completes invokes no subscriber whose
\* handle was closed before, and invokes once every open subscriber of the
\* Setting (for a change) and of its Set
C19_ClosedStaysSilent ==
    \A t \in Threads :
        /\ SetDone(t) /\ ~ret[t].same =>
              \A h \in HandleIds :
                  calls[t][h] =
                      IF /\ ~handles[h].closed
                         /\ \/ handles[h].coll = "setting" /\ handles[h].id = ret[t].setting
                            \/ handles[h].coll = "set"
                      THEN <<ret[t].setting>> ELSE <<>>
        /\ Done(t, "Setting") /\ ~ret[t].panicked =>
              \A h \in HandleIds :
                  calls[t][h] = IF handles[h].coll = "set" /\ ~handles[h].closed
                                THEN <<ret[t].obj>> ELSE <<>>

\* C19: a Setting was created after one of the Set's two subscribers had been
\* closed; the open one was invoked and the closed one was not
C19_Witness ==
    \E t \in Threads :
        /\ Done(t, "Setting") /\ ~ret[t].panicked
        /\ \E h \in HandleIds :
               handles[h].coll = "set" /\ handles[h].closed /\ calls[t][h] = <<>>
        /\ \E h \in HandleIds :
               handles[h].coll = "set" /\ ~handles[h].closed
               /\ calls[t][h] = <<ret[t].obj>>

(***************************************************************************)
(* Notifiers that close or subscribe during the dispatch (ReentrySpec)     *)
(***************************************************************************)
\* when a Setting.Set that changed the value has returned, every subscriber
\* that the dispatch could reach when it began was invoked exactly once, the
\* ones that closed their own handle included, which are subscribed no more;
\* a subscriber registered during the dispatch was invoked at most once; a
\* handle closed before the dispatch began was not invoked
C20_EachOnce ==
    \A t \in Threads :
        SetDone(t) /\ ~ret[t].same =>
            \A h \in HandleIds :
                /\ h \in ret[t].start => calls[t][h] = <<ret[t].setting>>
                /\ h \notin ret[t].start => Len(calls[t][h]) <= 1
                /\ h \notin ret[t].start /\ handles[h].closed => calls[t][h] = <<>>
                /\ handles[h].kind = "closer" /\ calls[t][h] # <<>> =>
                       handles[h].closed /\ ~Subscribed(h)

\* a dispatch that has begun ends, and the call returns
C20_Completes == \A t \in Threads : (pc[t] = "Range") ~> (pc[t] = "done")

\* C20: with a subscriber that closes its own handle in its callback, or that
\* registers a new subscriber during the dispatch, the Set call completes,
\* every other subscriber registered before the dispatch and still registered
\* is invoked exactly once, and the subscriber that closed itself is not
\* invoked for later changes
C20_ReentrantDispatch == []C20_EachOnce /\ C20_Completes

\* C20: in one dispatch a subscriber closed its own handle and another
\* subscriber of the same Setting was invoked once
C20_Witness ==
    \E t \in Threads :
        /\ SetDone(t) /\ ~ret[t].same
        /\ \E h1, h2 \in ret[t].start :
              /\ h1 # h2
              /\ handles[h1].kind = "closer" /\ handles[h1].closed
              /\ handles[h1].coll = "setting" /\ handles[h2].coll = "setting"
              /\ handles[h2].kind = "user"
              /\ calls[t][h1] = <<ret[t].setting>> /\ calls[t][h2] = <<ret[t].setting>>

(***************************************************************************)
(* The order of the steps of Setting.Set and of notifyChanged (ReentrySpec)*)
(***************************************************************************)
\* the handles of the Notifier calls of a dispatch, in their order
Invoked(log) == [i \in DOMAIN log |-> log[i].h]

\* when a Setting.Set that changed the value has returned, every Notifier
\* call of its dispatch has read the parsed text from the Setting, and every
\* subscriber that the dispatch could reach when it began has been called
C21_ReadsNew ==
    \A t \in Threads :
        SetDone(t) /\ ~ret[t].same =>
            /\ \A i \in DOMAIN ret[t].log :
                   ret[t].log[i].read = ParseAs(ret[t].before.type, ret[t].text).cell
            /\ \A h \in ret[t].start : \E i \in DOMAIN ret[t].log : ret[t].log[i].h = h

\* the steps of a Setting.Set follow each other as equality check, type
\* switch, dispatch; the value is written in the type switch only and the
\* Notifiers are called in the dispatch only
C21_Steps ==
    /\ (\A t \in Threads : pc[t] # "SetMutate") =>
           \A x \in SettingIds : Deref(settings'[x].Value) = Deref(settings[x].Value)
    /\ \A t \in Threads :
        /\ pc[t] = "SetEquals" => pc'[t] \in {"SetEquals", "SetMutate"}
        /\ pc[t] = "SetMutate" => pc'[t] \in {"SetMutate", "SetDispatch", "done"}
        /\ pc[t] = "SetDispatch" => pc'[t] \in {"SetDispatch", "Range"}
        /\ pc[t] = "Range" => pc'[t] \in {"Range", "done"}
        /\ pc'[t] = "SetMutate" => pc[t] \in {"SetEquals", "SetMutate"}
        /\ pc'[t] = "SetDispatch" => pc[t] \in {"SetMutate", "SetDispatch"}
        /\ pc[t] \notin {"Range", "done"} => calls'[t] = calls[t]

\* C21: in one Setting.Set call the equality check comes before the mutation
\* and the mutation before the dispatch; every subscriber invoked for the
\* change reads the new value during its callback, and the calls to the
\* subscribers of the Setting, of its Set and of the ancestors are all made
\* when Set returns
C21_SetOrder == []C21_ReadsNew /\ [][C21_Steps]_vars

\* C21: a change was dispatched to a subscriber of the Setting and to one of
\* the top-level Set, and both read the new value true
C21_Witness ==
    \E t \in Threads :
        /\ SetDone(t) /\ ~ret[t].same
        /\ Len(ret[t].log) = 2
        /\ \E i, j \in DOMAIN ret[t].log :
              /\ handles[ret[t].log[i].h].coll = "setting"
              /\ handles[ret[t].log[j].h].coll = "set"
              /\ handles[ret[t].log[j].h].id = TopSet
              /\ ret[t].log[i].read = BoolCell(TRUE)
              /\ ret[t].log[j].read = BoolCell(TRUE)

\* a change or a creation has been dispatched
Dispatched(t) ==
    /\ pc[t] = "done"
    /\ \/ SetDone(t) /\ ~ret[t].same
       \/ ret[t].op = "Setting" /\ ~ret[t].panicked

\* in the Notifier calls of one change or creation no handle occurs twice, a
\* subscriber of a Set is never called after a subscriber of one of the Set's
\* ancestors, and every subscriber that could be reached at the start, of the
\* Setting and of the Sets from the owner up to the top, has been called
C28_UpwardOnce ==
    \A t \in Threads :
        Dispatched(t) =>
            LET log == Invoked(ret[t].log)
            IN  /\ \A i, j \in DOMAIN log : i # j => log[i] # log[j]
                /\ \A i, j \in DOMAIN log :
                       i < j /\ handles[log[i]].coll = "set" /\ handles[log[j]].coll = "set"
                           => handles[log[j]].id \in UpSets(handles[log[i]].id)
                /\ \A h \in ret[t].start : \E i \in DOMAIN log : log[i] = h

\* while notifyChanged runs, the Set it serves is on the parent chain of the
\* Set that owns the Setting, and that chain ends at the top-level Set
C28_OnChain ==
    \A t \in Threads :
        pc[t] = "Range" =>
            \A i \in DOMAIN frame[t].stack :
                frame[t].stack[i].coll = "set" =>
                    /\ frame[t].stack[i].id \in UpSets(settings[frame[t].setting].owner)
                    /\ TopSet \in UpSets(frame[t].stack[i].id)

\* the dispatch of a creation ends with the return of Set.Setting
C28_Terminates ==
    \A t \in Threads : (pc[t] = "Range" /\ frame[t].op = "Setting") ~> Done(t, "Setting")

\* C28: for one change or creation notifyChanged calls all subscribers of a
\* Set before any subscriber of the Set's parent, up to the top-level Set,
\* where it stops; it terminates and calls no subscriber twice; for a change
\* the Setting's own subscribers and the chain of Sets are served in the same
\* Set call
C28_NotifyChangedOrder == [](C28_UpwardOnce /\ C28_OnChain) /\ C28_Terminates

\* C28: a change in a subset was dispatched first to the subscriber of the
\* subset and then to the subscriber of the top-level Set
C28_Witness ==
    \E t \in Threads :
        /\ SetDone(t) /\ ~ret[t].same
        /\ Len(ret[t].log) = 2
        /\ handles[ret[t].log[1].h].coll = "set"
        /\ handles[ret[t].log[1].h].id # TopSet
        /\ handles[ret[t].log[2].h].coll = "set"
        /\ handles[ret[t].log[2].h].id = TopSet

(***************************************************************************)
(* Dump and the lookup of a Set's own settings (LookupSpec)                *)
(***************************************************************************)
\* the Settings created through Set s or through a Set below s
InTree(s) == {x \in SettingIds : s \in UpSets(settings[x].via)}

\* C27: Dump on a Set writes, after the header, exactly one row for each
\* setting registered in that Set's tree, and the Value of a row is the
\* setting's String at that time, the redaction text for a masked setting
C27_DumpRows ==
    \A t \in Threads :
        Done(t, "Dump") =>
            /\ \A x \in InTree(ret[t].set) :
                   Cardinality({r \in ret[t].rows : r.setting = x}) = 1
            /\ \A r \in ret[t].rows :
                   /\ r.setting \in InTree(ret[t].set)
                   /\ r.value = String(r.setting)
                   /\ settings[r.setting].Mask => r.value = MaskText

\* C30: S.Get(name) returns the setting that S.Setting(name, ...) returned,
\* whatever settings other Sets of the tree hold under the same name
C30_GetOwnSetting ==
    \A t \in Threads :
        Done(t, "Get") =>
            \A x \in SettingIds :
                settings[x].via = ret[t].set /\ settings[x].Name = ret[t].name
                    => ret[t].obj = x

\* C24: DefaultValue is the String of the value that Set.Setting was given,
\* IsDefault is true when Set.Setting returns, and in every later state
\* IsDefault is true exactly when the current value is the one that the
\* initial text stands for
C24_DefaultValue ==
    /\ \A t \in Threads :
            Done(t, "Setting") /\ ~ret[t].panicked =>
                /\ settings[ret[t].obj].DefaultValue =
                       FormatCell(Deref(settings[ret[t].obj].Value))
                /\ IsDefault(ret[t].obj)
    /\ \A x \in SettingIds :
            LET cell == Deref(settings[x].Value)
            IN  IsDefault(x) <=> cell = ParseAs(cell.type, settings[x].DefaultValue).cell

C22_LastWriteWins ==
    /\ \A x \in SettingIds :
          (\A t \in Racers :
                SetReturned(t) /\ ret[t].setting = x /\ ret[t].err = NoErr)
          => Deref(settings[x].Value) \in
                { ParseAs(settings[x].Value.cell.type, ret[t].text).cell : t \in Racers }
    /\ \A t \in Threads :
          SetReturned(t) =>
              LET type == settings[ret[t].setting].Value.cell.type
                  pv == ParseAs(type, ret[t].text)
              IN  ret[t].err = IF pv.err # ErrNil THEN CastErr(type, pv.err) ELSE NoErr

(***************************************************************************)
(* Binding, registration and reads (RegistrySpec)                          *)
(***************************************************************************)
\* the Settings that a structure with these fields, stored from addr on, is
\* to have in the Set with path prefix and in the Subsets below it
RECURSIVE Leaves(_, _, _)
Leaves(fields, prefix, addr) ==
    IF fields = <<>> THEN {}
    ELSE LET f == Head(fields)
             name == IF f.tag # <<>> THEN f.tag ELSE f.name
             path == IF prefix = <<>> THEN name ELSE DotJoin(prefix, name)
             rest == Leaves(Tail(fields), prefix, addr + Len(CellsOf(<<f>>)))
         IN  IF ~f.exported \/ name = <<"-">> \/ f.kind \in {"chan", "func", "nilptr"}
             THEN rest
             ELSE IF f.kind \in {"struct", "ptr"}
                  THEN Leaves(Structs[f.sub], path, addr) \cup rest
                  ELSE {[path |-> path, prefix |-> prefix, addr |-> addr,
                         mask |-> f.mask]} \cup rest

C25_Created ==
    \A t \in Threads :
        Done(t, "Bind") /\ ~ret[t].panicked =>
            LET L == Leaves(Structs[ret[t].shape], sets[ret[t].set].path, ret[t].base)
                new == (ret[t].first + 1)..Len(settings)
            IN  /\ Cardinality(new) = Cardinality(L)
                /\ \A l \in L : \E x \in new :
                      /\ settings[x].Path = l.path
                      /\ settingsMap[ToLower(l.path)] = x
                      /\ settings[x].Value.ptr /\ settings[x].Value.addr = l.addr
                      /\ settings[x].Mask = l.mask
                      /\ sets[settings[x].via].path = l.prefix
                      /\ settings[x].owner = settings[x].via
                      /\ l.prefix = sets[ret[t].set].path => settings[x].via = ret[t].set
                /\ \A s \in (ret[t].firstSet + 1)..Len(sets) :
                      \E l \in L : sets[s].path = l.prefix

C25_WritesThrough ==
    \A t \in Threads :
        /\ SetReturned(t) /\ ret[t].err = NoErr /\ settings[ret[t].setting].Value.ptr =>
              mem[settings[ret[t].setting].Value.addr] =
                  ParseAs(settings[ret[t].setting].Value.cell.type, ret[t].text).cell
        /\ Done(t, "String") /\ settings[ret[t].setting].Value.ptr
                             /\ ~settings[ret[t].setting].Mask =>
              ret[t].str = FormatCell(mem[settings[ret[t].setting].Value.addr])

C25_FieldKept ==
    \A x \in SettingIds :
        /\ settings'[x].Value.ptr = settings[x].Value.ptr
        /\ settings'[x].Value.addr = settings[x].Value.addr

\* C25: a Bind that returns has created exactly one Setting for each field
\* that can be set, is not named "-" and is neither chan nor func, struct nor
\* pointer: in the Set it was called on, or in the Subset named after the
\* struct or pointer field that holds it, and no other Subset; each Setting
\* points at its field for good, so that a successful Set stores the parsed
\* value in the field and String reads the field
C25_BindCreatesSettings ==
    [](C25_Created /\ C25_WritesThrough) /\ [][C25_FieldKept]_vars

\* C25: the structure with a struct field H and a pointer field Q was bound,
\* and a Set on "H.P" has stored 7 in the field
C25_Witness ==
    \E t \in Threads, x, y, z \in SettingIds :
        /\ SetReturned(t) /\ ~ret[t].same /\ ret[t].err = NoErr /\ ret[t].setting = x
        /\ settings[x].Path = <<"H", ".", "P">> /\ settings[x].Value.ptr
        /\ settings[x].via # TopSet
        /\ mem[settings[x].Value.addr] = IntCell("int8", 7)
        /\ settings[y].Path = <<"Q", ".", "P">>
        /\ settings[z].Path = <<"n">> /\ settings[z].Mask

C23_Registered ==
    \A x \in SettingIds :
        LET key == ToLower(settings[x].Path)
        IN  /\ key \in DOMAIN settingsMap /\ settingsMap[key] = x
            /\ \A s \in SetIds : Get(s, settings[x].Path) = x

C23_Kept ==
    /\ \A x \in SettingIds :
          x \in 1..Len(settings') /\ settings'[x].Path = settings[x].Path
    /\ \A k \in DOMAIN settingsMap :
          k \in DOMAIN settingsMap' /\ settingsMap'[k] = settingsMap[k]

\* C23: every Setting stays registered under its Path, which never changes,
\* and Get with that Path returns it from every Set, whatever Setting, Subset,
\* Set, Bind, Notify, Close and Range calls follow
C23_NeverReplaced == []C23_Registered /\ [][C23_Kept]_vars

\* C23: Get returns the Setting "n" that Set.Setting created, after a Bind has
\* added Settings, a Set has changed its value and a subscription was closed
C23_Witness ==
    \E t \in Threads, x \in SettingIds, h \in HandleIds :
        /\ Done(t, "Get") /\ ret[t].obj = x
        /\ settings[x].Path = <<"n">> /\ ~settings[x].Value.ptr
        /\ Deref(settings[x].Value) = StrCell(<<"7">>)
        /\ Len(settings) > 1 /\ Len(sets) > 1
        /\ handles[h].closed

ReadOps == {"Equals", "String", "IsDefault", "Get", "Range"}

\* C29: a call of Setting.Equals, Setting.String, Setting.IsDefault, Set.Get or
\* Set.Range changes no Setting (value, DefaultValue, Mask, notifiers), no
\* Set, neither map and no handle, and calls no subscriber
C29_ReadsChangeNothing ==
    [][\A t \in Threads :
          pc[t] = "idle" /\ pc'[t] = "done" /\ ret'[t].op \in ReadOps
          => UNCHANGED <<sets, children, settingsMap, settings, mem, handles, calls>>]_vars

\* C29: Equals has returned false for a text that parses to another value
\* than the one the Setting, which has a subscriber, holds
C29_Witness ==
    \E t \in Threads :
        /\ Done(t, "Equals") /\ ~ret[t].same
        /\ LET value == settings[ret[t].setting].Value
               pv == ParseAs(value.cell.type, ret[t].text)
           IN  pv.err = ErrNil /\ pv.cell # Deref(value)
        /\ \E h \in HandleIds : ~handles[h].closed

(***************************************************************************)
(* Paths that begin alike and dotted subset names (PathSpec)               *)
(***************************************************************************)
\* the path of Set u is the path of Set s followed by dot-separated segments
Under(u, s) ==
    IF sets[s].path = <<>> THEN sets[u].path # <<>>
    ELSE HasPrefix(sets[u].path, DotJoin(sets[s].path, <<>>))

\* Set u is Set s or lies below it, by the parent chain or by its path
Within(u, s) == s \in UpSets(u) \/ Under(u, s)

\* C31: a Range on a Set passes to the callback only settings that were
\* created through that Set or through a Set below it
C31_RangeStaysInside ==
    \A t \in Threads :
        Done(t, "Range") =>
            \A x \in ret[t].visited : Within(settings[x].via, ret[t].set)

\* C33: when a setting created through Set u is created or changed, every
\* subscriber of every Set s whose path, followed by dot-separated segments,
\* is the path of u has been invoked once with the setting when the call
\* returns
C33_PathContainment ==
    \A t \in Threads :
        /\ SetDone(t) /\ ~ret[t].same =>
              \A s \in SetIds :
                  Under(settings[ret[t].setting].via, s)
                  => \A h \in SubscribedOn(s) : calls[t][h] = <<ret[t].setting>>
        /\ Done(t, "Setting") /\ ~ret[t].panicked =>
              \A s \in SetIds :
                  Under(ret[t].set, s)
                  => \A h \in SubscribedOn(s) : calls[t][h] = <<ret[t].obj>>

(***************************************************************************)
(* A Setting that is being created while others set it (VisibleSpec)       *)
(***************************************************************************)
C32_Subscribed ==
    \A x \in SettingIds :
        Get(settings[x].via, settings[x].Name) = x => settings[x].owner = settings[x].via

C32_Delivered ==
    \A t \in Threads :
        SetDone(t) /\ ~ret[t].same =>
            \A u \in UpSets(settings[ret[t].setting].via) :
                \A h \in SubscribedOn(u) : calls[t][h] = <<ret[t].setting>>

\* C32: a setting that Get returns has its owning Set subscribed to it, and
\* every Set call that changed its value has invoked the subscribers of the
\* owning Set and of the Sets above it
C32_VisibleIsSubscribed == C32_Subscribed /\ C32_Delivered

====
